---- MODULE Spec2Model ----
(***************************************************************************)
(* Ingestion and reconciliation engine of crypto_analytics_pipeline:       *)
(* scripts/api_pull.py (daily Ingestion Orchestrator) and                  *)
(* scripts/retry_missing.py (Retry Worker), sharing two files:             *)
(*   data/coingecko_markets.csv  (Row Store)   -> rows, dataExists         *)
(*   data/missing_queue.csv      (Retry Queue) -> queueFile                *)
(* Time is a tick counter; TicksPerDay ticks make one UTC calendar day.    *)
(* Coin ids are integers, a date is a day number, a timestamp is a tick.   *)
(***************************************************************************)
EXTENDS Integers, Sequences, FiniteSets, TLC

\* ---------------------------------------------------------------- bounds
MaxClock == 1
TicksPerDay == 2
MaxAttempts == 2
WorkerToday == 2

\* ------------------------------------------------------ program constants
HISTORY_DAYS == 5
MAX_HISTORY_DAYS == 90
BUFFER_DAYS == 2

\* config/universe_top50_dec01_2025.csv as read by load_universe: the ids
Universe == <<1, 2>>
Coins == {Universe[i] : i \in DOMAIN Universe}

\* pd.NA / NaN in a queue column
NA == -1

\* the calendar dates of the clock's range, and the (id, date) keys
\* the dates with pending items when the retry worker is studied alone
WorkerDates == {0, 1}
Dates == (0..(MaxClock \div TicksPerDay)) \cup WorkerDates
Keys == Coins \X Dates

\* ------------------------------------------------------------ time, dates
DateOf(t) == t \div TicksPerDay
Midnight(d) == d * TicksPerDay
Abs(x) == IF x < 0 THEN -x ELSE x
Max2(a, b) == IF a >= b THEN a ELSE b
Min2(a, b) == IF a <= b THEN a ELSE b

\* ------------------------------------------------------- sequence helpers
RECURSIVE SelectIdx(_, _, _)
\* indices i of s, ascending, with Test(s[i]) -- a boolean-mask selection
SelectIdx(s, keep, i) ==
    IF i > Len(s) THEN <<>>
    ELSE (IF i \in keep THEN <<s[i]>> ELSE <<>>) \o SelectIdx(s, keep, i + 1)

KeyOf(r) == <<r.id, r.date>>
KeysOf(s) == {KeyOf(s[i]) : i \in DOMAIN s}

\* variants: no de-duplication at all; keep="first"
DropDuplicatesNone(s) == s
DropDuplicatesKeepFirst(s) ==
    SelectIdx(s, {i \in DOMAIN s :
                    \A j \in DOMAIN s : j < i => KeyOf(s[j]) # KeyOf(s[i])}, 1)

\* pandas drop_duplicates(subset=["id", "date"], keep="last")
DropDuplicatesKeepLast(s) ==
    SelectIdx(s, {i \in DOMAIN s :
                    \A j \in DOMAIN s : j > i => KeyOf(s[j]) # KeyOf(s[i])}, 1)

\* order of sort_values(["id", "date", "last_attempt_utc"])
UpsertLess(a, b) ==
    \/ a.id < b.id
    \/ a.id = b.id /\ a.date < b.date
    \/ a.id = b.id /\ a.date = b.date /\ a.last_attempt_utc < b.last_attempt_utc

\* order of sort_values(["first_seen_utc"])
FirstSeenLess(a, b) == a.first_seen_utc < b.first_seen_utc

\* order of sort_values("timestamp_utc")
TimestampLess(a, b) == a.timestamp_utc < b.timestamp_utc

\* order of sort_values(["id", "timestamp_utc"])
IdTimestampLess(a, b) ==
    \/ a.id < b.id
    \/ a.id = b.id /\ a.timestamp_utc < b.timestamp_utc

\* order of sort_values(["id", "date"])
IdDateLess(a, b) ==
    \/ a.id < b.id
    \/ a.id = b.id /\ a.date < b.date

\* the order named by the column list `by` of a sort_values call
Less(by, a, b) ==
    IF by = "first_seen_utc" THEN FirstSeenLess(a, b)
    ELSE IF by = "timestamp_utc" THEN TimestampLess(a, b)
    ELSE IF by = "id_timestamp_utc" THEN IdTimestampLess(a, b)
    ELSE IF by = "id_date" THEN IdDateLess(a, b)
    ELSE UpsertLess(a, b)

\* stable sort of s: position of s[i] = number of elements that go before it
RankIn(s, i, by) ==
    Cardinality({j \in DOMAIN s : \/ Less(by, s[j], s[i])
                                  \/ (~Less(by, s[i], s[j]) /\ j < i)}) + 1
SortPerm(s, by) ==
    [k \in DOMAIN s |-> CHOOSE i \in DOMAIN s : RankIn(s, i, by) = k]
SortValues(s, by) ==
    [k \in DOMAIN s |-> s[SortPerm(s, by)[k]]]

\* ------------------------------------------------------------ the gateway
\* the market: price of coin c observed at tick ts
PriceAt(c, ts) == 100 * c + 10 * ts

\* market_chart history of the last `days` days, ascending by timestamp
FullHistory(c, t, days) ==
    LET lo == Max2(0, t - days * TicksPerDay)
    IN  [k \in 1..(t - lo + 1) |->
            [timestamp_utc |-> lo + k - 1, price |-> PriceAt(c, lo + k - 1)]]

\* what get_recent_history_for_coin can do: raise, or return a history
GatewayResponses(c, t, days, stable) ==
    IF stable THEN {[ok |-> TRUE, hist |-> FullHistory(c, t, days)]}
    ELSE {[ok |-> FALSE, hist |-> <<>>],
          [ok |-> TRUE, hist |-> <<>>],
          [ok |-> TRUE, hist |-> FullHistory(c, t, days)]}

\* ------------------------------------------------------- midnight sampler
\* variants: the difference is taken without abs(); the last index reaching
\* the minimum
PickSignedMin(hist, d) ==
    LET diff(i) == hist[i].timestamp_utc - Midnight(d)
        best == CHOOSE i \in DOMAIN hist :
                  /\ \A j \in DOMAIN hist : diff(i) <= diff(j)
                  /\ \A j \in DOMAIN hist : diff(j) = diff(i) => i <= j
    IN  hist[best]
PickLastMin(hist, d) ==
    LET diff(i) == Abs(hist[i].timestamp_utc - Midnight(d))
        best == CHOOSE i \in DOMAIN hist :
                  /\ \A j \in DOMAIN hist : diff(i) <= diff(j)
                  /\ \A j \in DOMAIN hist : diff(j) = diff(i) => i >= j
    IN  hist[best]

\* idxmin of |timestamp_utc - midnight|: the first index reaching the minimum
pick_midnight_for_date(hist, d) ==
    LET diff(i) == Abs(hist[i].timestamp_utc - Midnight(d))
        best == CHOOSE i \in DOMAIN hist :
                  /\ \A j \in DOMAIN hist : diff(i) <= diff(j)
                  /\ \A j \in DOMAIN hist : diff(j) = diff(i) => i <= j
    IN  hist[best]

\* variant: an empty history yields an observation with price 0
TrySampleEmptyOk(resp, d) ==
    IF ~resp.ok THEN [ok |-> FALSE, price |-> 0, msg |-> "FetchFailed"]
    ELSE IF resp.hist = <<>> THEN [ok |-> TRUE, price |-> 0, msg |-> ""]
         ELSE [ok |-> TRUE, price |-> pick_midnight_for_date(resp.hist, d).price,
               msg |-> ""]

\* the try block of one entity: fetch, sample; the message of the exception
TrySample(resp, d) ==
    IF ~resp.ok THEN [ok |-> FALSE, price |-> 0, msg |-> "FetchFailed"]
    ELSE IF resp.hist = <<>>
         THEN [ok |-> FALSE, price |-> 0, msg |-> "EmptyHistory"]
         ELSE [ok |-> TRUE, price |-> pick_midnight_for_date(resp.hist, d).price,
               msg |-> ""]

\* the rest of the try block: _append_row_to_csv raises OSError when the data
\* file cannot be written, and `except Exception` takes it like any other
TryAppend(res, failing) ==
    IF res.ok /\ failing
    THEN [ok |-> FALSE, price |-> res.price, msg |-> "PersistenceError"]
    ELSE res

\* entries of the log of outside calls: a market_chart history fetch for coin
\* c (pass 1 or 2 of api_pull, 0 in the retry worker, for the queue rows
\* items), and time.sleep(SECOND_PASS_SLEEP_SECONDS)
FetchCall(c, pass, items) ==
    [call |-> "fetch", id |-> c, pass |-> pass, items |-> items]
CooldownCall == [call |-> "sleep", id |-> NA, pass |-> 2, items |-> <<>>]

\* ---------------------------------------------------------------- returns
\* an optional value: None is <<>>, a present value v is <<v>>
None == <<>>

\* price_lookup: a function from the (id, date) keys it knows to a price
EmptyLookup == [k \in {} |-> 0]

\* per id, sort by date and keep the last row of a date: the price of a key
\* is the current_price of the last row of the file with that key
build_price_lookup(data) ==
    [k \in KeysOf(data) |->
        data[CHOOSE i \in DOMAIN data :
               /\ KeyOf(data[i]) = k
               /\ \A j \in DOMAIN data : KeyOf(data[j]) = k => j <= i].current_price]

\* price_lookup.get(coin_id, {}).get(d)
LookupGet(lookup, c, d) ==
    IF <<c, d>> \in DOMAIN lookup THEN <<lookup[<<c, d>>]>> ELSE None

\* variant: the in-memory index is not updated
LookupSetNone(lookup, c, d, price) == lookup

\* price_lookup.setdefault(coin_id, {})[d] = current_price
LookupSet(lookup, c, d, price) ==
    [k \in DOMAIN lookup \cup {<<c, d>>} |->
        IF k = <<c, d>> THEN price ELSE lookup[k]]

\* variant: a missing or zero past price gives a return of 0
PctZeroWhenMissing(cur, past) ==
    IF past = None \/ past = <<0>> THEN <<0>>
    ELSE <<((cur - past[1]) * 100) \div past[1]>>

\* (cur / past - 1.0) * 100.0, in whole percent rounded down; None when the
\* past price is missing or zero
pct(cur, past) ==
    IF past = None \/ past = <<0>> THEN None
    ELSE <<((cur - past[1]) * 100) \div past[1]>>

\* the returns over 1, 7 and 30 days from exact-date lookups
compute_returns_for_new_row(coin_id, d, current_price, lookup) ==
    [r1 |-> pct(current_price, LookupGet(lookup, coin_id, d - 1)),
     r7 |-> pct(current_price, LookupGet(lookup, coin_id, d - 7)),
     r30 |-> pct(current_price, LookupGet(lookup, coin_id, d - 30))]

\* ---------------------------------------------------------------- storage
\* new_row = {...} with the returns of compute_returns_for_new_row
NewRow(c, d, price, lookup, run_dt) ==
    [id |-> c, date |-> d, current_price |-> price,
     last_pipeline_run_utc |-> run_dt,
     price_change_percentage_24h_in_currency |->
         compute_returns_for_new_row(c, d, price, lookup).r1,
     price_change_percentage_7d_in_currency |->
         compute_returns_for_new_row(c, d, price, lookup).r7,
     price_change_percentage_30d_in_currency |->
         compute_returns_for_new_row(c, d, price, lookup).r30]

\* variant: the file is opened with mode "w" instead of "a"
AppendRowRewrite(data, row) == <<row>>

\* pd.DataFrame([row_dict]).to_csv(output_path, mode="a", header=False)
append_row_to_csv(data, row) == Append(data, row)

\* variant: the key set is never filled from the file
ExistingKeysEmpty(data) == {}

\* variant: the last line of the file is not read
ExistingKeysExceptLast(data) ==
    IF data = <<>> THEN {} ELSE KeysOf(SubSeq(data, 1, Len(data) - 1))

\* existing_keys = set(zip(existing["id"], existing["date"]))
ExistingKeys(data) == KeysOf(data)

\* variant: the membership test never matches (a datetime against dates)
AlreadyHaveNever(c, d, keys) == FALSE

\* `if (coin_id, target_date) in existing_keys`
AlreadyHave(c, d, keys) == <<c, d>> \in keys

Stat(c, status, err) == [id |-> c, status |-> status, error |-> err]

\* variants: a status no entity ever has; every error status
FinalFailuresMaskNone(st) == st.status = "error"
FinalFailuresMaskAnyError(st) ==
    st.status \in {"error_first_pass", "error_second_pass"}

\* stats_df[stats_df["status"] == "error_second_pass"]
FinalFailuresMask(st) == st.status = "error_second_pass"
FinalFailures(stats) ==
    SelectIdx(stats, {i \in DOMAIN stats : FinalFailuresMask(stats[i])}, 1)

\* one queue_rows entry built by api_pull.main
QueueRow(r, d) ==
    [id |-> r.id, date |-> d, attempts |-> 1, last_error |-> r.error,
     status |-> "queued"]

\* incoming frame of upsert_missing_queue: last_attempt_utc stamped, the
\* absent first_seen_utc column added as NA
Incoming(items, nowUtc) ==
    [k \in DOMAIN items |->
        [id |-> items[k].id, date |-> items[k].date,
         attempts |-> items[k].attempts, last_error |-> items[k].last_error,
         status |-> items[k].status,
         first_seen_utc |-> NA, last_attempt_utc |-> nowUtc]]

SetFirstSeen(s, v) == [k \in DOMAIN s |-> [s[k] EXCEPT !.first_seen_utc = v]]
FillnaFirstSeen(s, v) ==
    [k \in DOMAIN s |->
        IF s[k].first_seen_utc = NA THEN [s[k] EXCEPT !.first_seen_utc = v]
        ELSE s[k]]

\* the frame upsert_missing_queue writes; file = [state, rows].  Each stage
\* of the pandas pipeline is bound to its value before the next one uses it.
Combined(file, items, nowUtc) ==
    LET merged ==
          IF file.state = "absent"
          THEN {DropDuplicatesKeepLast(stamped) :
                  stamped \in {SetFirstSeen(incoming, nowUtc) :
                                 incoming \in {Incoming(items, nowUtc)}}}
          ELSE {DropDuplicatesKeepLast(sorted) :
                  sorted \in {SortValues(file.rows \o incoming, "id_date_last_attempt_utc") :
                                incoming \in {Incoming(items, nowUtc)}}}
    IN  CHOOSE frame \in {FillnaFirstSeen(m, nowUtc) : m \in merged} : TRUE

\* ----------------------------------------------------------- retry worker
\* variant: one group per run of consecutive items of the same id
GroupOrderConsecutive(q) ==
    LET first == {i \in DOMAIN q : i = 1 \/ q[i - 1].id # q[i].id}
    IN  [k \in DOMAIN SelectIdx(q, first, 1) |-> SelectIdx(q, first, 1)[k].id]

\* queue.groupby("id", sort=False): the ids in order of first appearance
GroupOrder(q) ==
    LET first == {i \in DOMAIN q : \A j \in DOMAIN q : j < i => q[j].id # q[i].id}
    IN  [k \in DOMAIN SelectIdx(q, first, 1) |-> SelectIdx(q, first, 1)[k].id]

\* the index labels of the group of coin c, in frame order
RECURSIVE IndicesFrom(_, _, _)
IndicesFrom(q, keep, i) ==
    IF i > Len(q) THEN <<>>
    ELSE (IF i \in keep THEN <<i>> ELSE <<>>) \o IndicesFrom(q, keep, i + 1)
GroupIndices(q, c) == {i \in DOMAIN q : q[i].id = c}

\* variant: the presence filter is skipped
AlreadyPresentNone(q, c, keys) == {}

\* variant: only the first item of the group is tested for presence
AlreadyPresentFirst(q, c, keys) ==
    {i \in GroupIndices(q, c) :
        /\ KeyOf(q[i]) \in keys
        /\ \A j \in GroupIndices(q, c) : i <= j}

\* items of the group already present in the Row Store
AlreadyPresent(q, c, keys) == {i \in GroupIndices(q, c) : KeyOf(q[i]) \in keys}
\* variant: every item of the group stays pending
PendingRowsAll(q, c, keys) ==
    IndicesFrom(q, GroupIndices(q, c), 1)

PendingRows(q, c, keys) ==
    IndicesFrom(q, GroupIndices(q, c) \ AlreadyPresent(q, c, keys), 1)

SetMin(S) == CHOOSE x \in S : \A y \in S : x <= y

\* variant: the window reaches the oldest pending date, without the buffer
DaysNeededNoBuffer(q, pend, today) ==
    LET oldest_date == SetMin({q[pend[k]].date : k \in DOMAIN pend})
    IN  Max2(2, Min2(MAX_HISTORY_DAYS, today - oldest_date))

\* days_needed = max(2, min(MAX_HISTORY_DAYS, (today - oldest).days + BUFFER_DAYS))
DaysNeeded(q, pend, today) ==
    LET oldest_date == SetMin({q[pend[k]].date : k \in DOMAIN pend})
    IN  Max2(2, Min2(MAX_HISTORY_DAYS, (today - oldest_date) + BUFFER_DAYS))

\* variant: the attempt is recorded but not counted
MarkFailedNoCount(q, idxs, msg, ts) ==
    [i \in DOMAIN q |->
        IF i \in idxs
        THEN [q[i] EXCEPT !.last_error = msg, !.last_attempt_utc = ts,
                          !.status = "error"]
        ELSE q[i]]

\* the four queue.at[idx, ...] assignments of a failed attempt
MarkFailed(q, idxs, msg, ts) ==
    [i \in DOMAIN q |->
        IF i \in idxs
        THEN [q[i] EXCEPT !.attempts = q[i].attempts + 1, !.last_error = msg,
                          !.last_attempt_utc = ts, !.status = "error"]
        ELSE q[i]]

\* variants: only the first resolved item is dropped; nothing is dropped;
\* items at the attempt bound expire
QueueRemainingDropOne(q, success) ==
    IF success = {} THEN q
    ELSE SelectIdx(q, DOMAIN q \ {CHOOSE i \in success : \A j \in success : i <= j}, 1)
QueueRemainingAll(q, success) == q
QueueRemainingExpire(q, success) ==
    SelectIdx(q, {i \in DOMAIN q : i \notin success /\ q[i].attempts < MaxAttempts}, 1)

\* queue.drop(index=success_indices).reset_index(drop=True)
QueueRemaining(q, success) == SelectIdx(q, DOMAIN q \ success, 1)

\* ------------------------------------------------------------------ state
VARIABLES
    now,            \* the clock, in ticks
    fetchable,      \* coins whose history fetch succeeds from now on
    unwritable,     \* whether writing data/coingecko_markets.csv fails
    calls,          \* the outside calls of the running process, in order
    rows,           \* data/coingecko_markets.csv, in file order
    dataExists,     \* whether that file exists
    queueFile,      \* data/missing_queue.csv: [state, rows]
    pc,             \* position of the one running process
    lastPulled,     \* target_date of the last completed api_pull run
    upserts,        \* per key, the direct upsert_missing_queue calls so far
    target_date,    \* api_pull.main locals
    existing, existing_keys, stats, first_pass_errors, pi,
    combined, out1, out2, price_lookup, ret,
    picked,         \* result of the last direct pick_midnight_for_date call
    returns,        \* result of the last direct compute_returns_for_new_row call
    queue,          \* retry_missing.main locals
    w_existing_keys, now_utc, success_indices, groups, pending_rows, hist,
    wout, w_price_lookup,
    attempt, outcome,   \* _request_with_retry: loop counter, how it ended
    all_new_rows,       \* backfill_dec4_5_6.main local
    backfilled,         \* the last process to end was a completed backfill
    days_needed         \* retry_missing.main local: the window of one fetch

pullVars == <<target_date, existing, existing_keys, stats, first_pass_errors,
              pi, combined, out1, out2, price_lookup, ret, picked, returns>>
fileVars == <<rows, dataExists, queueFile>>
workerVars == <<queue, w_existing_keys, now_utc, success_indices, groups,
                pending_rows, hist, wout, w_price_lookup>>
otherVars == <<attempt, outcome, all_new_rows, backfilled, days_needed>>
vars == <<now, fetchable, unwritable, calls, upserts, rows, dataExists,
          queueFile, pc, lastPulled, pullVars, workerVars, otherVars>>

NoOutcome == [c \in Coins |-> "none"]

PullIdle ==
    /\ target_date = NA /\ existing = <<>> /\ existing_keys = {}
    /\ stats = <<>> /\ first_pass_errors = <<>> /\ pi = 0
    /\ combined = <<>> /\ out1 = NoOutcome /\ out2 = NoOutcome
    /\ price_lookup = EmptyLookup /\ ret = NA
    /\ picked = <<>> /\ returns = <<>>

PullReset ==
    /\ target_date' = NA /\ existing' = <<>> /\ existing_keys' = {}
    /\ stats' = <<>> /\ first_pass_errors' = <<>> /\ pi' = 0
    /\ combined' = <<>> /\ out1' = NoOutcome /\ out2' = NoOutcome
    /\ price_lookup' = EmptyLookup /\ ret' = NA
    /\ picked' = <<>> /\ returns' = <<>>

WorkerIdle ==
    /\ queue = <<>> /\ w_existing_keys = {} /\ now_utc = NA
    /\ success_indices = {} /\ groups = <<>> /\ pending_rows = <<>>
    /\ hist = <<>> /\ wout = NoOutcome /\ w_price_lookup = EmptyLookup

WorkerReset ==
    /\ queue' = <<>> /\ w_existing_keys' = {} /\ now_utc' = NA
    /\ success_indices' = {} /\ groups' = <<>> /\ pending_rows' = <<>>
    /\ hist' = <<>> /\ wout' = NoOutcome /\ w_price_lookup' = EmptyLookup

OtherIdle ==
    /\ attempt = 0 /\ outcome = "none"
    /\ all_new_rows = <<>> /\ backfilled = FALSE
    /\ days_needed = 0

Init ==
    /\ now = 0
    /\ fetchable = {}
    /\ unwritable = FALSE
    /\ calls = <<>>
    /\ OtherIdle
    /\ rows = <<>>
    /\ dataExists = FALSE
    /\ queueFile = [state |-> "absent", rows |-> <<>>]
    /\ pc = "idle"
    /\ lastPulled = NA
    /\ upserts = [k \in Keys |-> <<>>]
    /\ PullIdle
    /\ WorkerIdle

\* ------------------------------------------------------------ environment
\* a run takes time: the clock has advanced when a process ends
Advance(t) == IF t < MaxClock THEN t + 1 ELSE t

\* time passes while no process runs
Tick ==
    /\ pc = "idle"
    /\ now < MaxClock
    /\ now' = now + 1
    /\ UNCHANGED <<fetchable, unwritable, calls, otherVars, upserts, fileVars, pc, lastPulled, pullVars,
                   workerVars>>

\* the gateway's data for coin c becomes fetchable for good
Stabilise(c) ==
    /\ pc = "idle"
    /\ c \notin fetchable
    /\ fetchable' = fetchable \cup {c}
    /\ UNCHANGED <<now, unwritable, calls, otherVars, upserts, fileVars, pc,
                   lastPulled, pullVars, workerVars>>

\* ---------------------------------------------------------- api_pull.main
PullStart ==
    /\ pc = "idle"
    /\ dataExists \/ ~unwritable
    /\ target_date' = DateOf(now)
    /\ dataExists' = TRUE
    /\ existing' = rows
    /\ existing_keys' = ExistingKeys(rows)
    /\ price_lookup' = build_price_lookup(rows)
    /\ stats' = <<>>
    /\ first_pass_errors' = <<>>
    /\ pi' = 1
    /\ pc' = "p_first"
    /\ UNCHANGED <<now, fetchable, unwritable, calls, otherVars, upserts, rows, queueFile, lastPulled, combined,
                   out1, out2, ret, picked, returns, workerVars>>

\* variant: the first failure ends the loop
NextEntityBreak(i, ok) == IF ok THEN i + 1 ELSE Len(Universe) + 1

\* `for _, row in universe.iterrows()`: the iteration after entity i, whether
\* its try block ended normally or in the except clause
NextEntity(i, ok) == i + 1

\* one iteration of the first-pass loop
PullFirst ==
    /\ pc = "p_first"
    /\ pi <= Len(Universe)
    /\ LET c == Universe[pi] IN
       IF AlreadyHave(c, target_date, existing_keys)
       THEN /\ stats' = Append(stats, Stat(c, "already_have", ""))
            /\ pi' = NextEntity(pi, TRUE)
            /\ UNCHANGED <<rows, existing_keys, price_lookup,
                           first_pass_errors, out1, calls>>
       ELSE \E resp \in GatewayResponses(c, now, HISTORY_DAYS, c \in fetchable) :
            LET res == TryAppend(TrySample(resp, target_date), unwritable) IN
            /\ calls' = Append(calls, FetchCall(c, 1, <<>>))
            /\ pi' = NextEntity(pi, res.ok)
            /\ out1' = [out1 EXCEPT ![c] = IF res.ok THEN "ok" ELSE res.msg]
            /\ IF res.ok
               THEN /\ rows' = append_row_to_csv(rows,
                                 NewRow(c, target_date, res.price, price_lookup, now))
                    /\ existing_keys' = existing_keys \cup {<<c, target_date>>}
                    /\ price_lookup' =
                           LookupSet(price_lookup, c, target_date, res.price)
                    /\ stats' = Append(stats, Stat(c, "ok", ""))
                    /\ UNCHANGED first_pass_errors
               ELSE /\ first_pass_errors' = Append(first_pass_errors, c)
                    /\ stats' = Append(stats, Stat(c, "error_first_pass", res.msg))
                    /\ UNCHANGED <<rows, existing_keys, price_lookup>>
    /\ UNCHANGED <<now, fetchable, unwritable, otherVars, upserts, dataExists, queueFile, pc,
                   lastPulled, target_date, existing, combined, out2, ret,
                   picked, returns, workerVars>>

\* variant: the cooldown and the second pass are entered unconditionally
SecondPassAlways(errors) == TRUE

\* `if first_pass_errors:`
SecondPassNeeded(errors) == errors # <<>>

\* end of the first pass: `if first_pass_errors:` and the cooldown sleep
PullFirstDone ==
    /\ pc = "p_first"
    /\ pi > Len(Universe)
    /\ pi' = 1
    /\ pc' = IF SecondPassNeeded(first_pass_errors) THEN "p_second"
             ELSE "p_queue"
    /\ calls' = IF SecondPassNeeded(first_pass_errors)
                THEN Append(calls, CooldownCall)
                ELSE calls
    /\ UNCHANGED <<now, fetchable, unwritable, otherVars, upserts, fileVars, lastPulled, target_date,
                   existing, existing_keys, stats, first_pass_errors, combined,
                   out1, out2, price_lookup, ret, picked, returns, workerVars>>

\* one iteration of the second-pass loop
PullSecond ==
    /\ pc = "p_second"
    /\ pi <= Len(first_pass_errors)
    /\ LET c == first_pass_errors[pi] IN
       IF AlreadyHave(c, target_date, existing_keys)
       THEN UNCHANGED <<rows, existing_keys, price_lookup, stats, out2, calls>>
       ELSE \E resp \in GatewayResponses(c, now, HISTORY_DAYS, c \in fetchable) :
            LET res == TryAppend(TrySample(resp, target_date), unwritable) IN
            /\ calls' = Append(calls, FetchCall(c, 2, <<>>))
            /\ out2' = [out2 EXCEPT ![c] = IF res.ok THEN "ok" ELSE res.msg]
            /\ IF res.ok
               THEN /\ rows' = append_row_to_csv(rows,
                                 NewRow(c, target_date, res.price, price_lookup, now))
                    /\ existing_keys' = existing_keys \cup {<<c, target_date>>}
                    /\ price_lookup' =
                           LookupSet(price_lookup, c, target_date, res.price)
                    /\ stats' = Append(stats, Stat(c, "ok_second_pass", ""))
               ELSE /\ stats' = Append(stats, Stat(c, "error_second_pass", res.msg))
                    /\ UNCHANGED <<rows, existing_keys, price_lookup>>
    /\ pi' = pi + 1
    /\ UNCHANGED <<now, fetchable, unwritable, otherVars, upserts, dataExists, queueFile, pc,
                   lastPulled, target_date, existing, first_pass_errors,
                   combined, out1, ret, picked, returns, workerVars>>

PullSecondDone ==
    /\ pc = "p_second"
    /\ pi > Len(first_pass_errors)
    /\ pc' = "p_queue"
    /\ UNCHANGED <<now, fetchable, unwritable, calls, otherVars, upserts, fileVars, lastPulled, target_date,
                   existing, existing_keys, stats, first_pass_errors, pi,
                   combined, out1, out2, price_lookup, ret, picked, returns,
                   workerVars>>

\* `Queue final failures`: the frame upsert_missing_queue is about to write
PullQueue ==
    /\ pc = "p_queue"
    /\ LET final_failures == FinalFailures(stats)
           queue_rows == [k \in DOMAIN final_failures |->
                             QueueRow(final_failures[k], target_date)]
       IN  IF final_failures = <<>>
           THEN pc' = "p_policy" /\ UNCHANGED combined
           ELSE /\ queueFile.state # "empty0"
                /\ \E items \in {queue_rows} :
                      combined' = Combined(queueFile, items, now)
                /\ pc' = "p_qopen"
    /\ UNCHANGED <<now, fetchable, unwritable, calls, otherVars, upserts, fileVars, lastPulled, target_date,
                   existing, existing_keys, stats, first_pass_errors, pi,
                   out1, out2, price_lookup, ret, picked, returns, workerVars>>

\* combined.to_csv(queue_path): the file is opened for writing (truncated) ...
PullQueueOpen ==
    /\ pc = "p_qopen"
    /\ queueFile' = [state |-> "empty0", rows |-> <<>>]
    /\ pc' = "p_qflush"
    /\ UNCHANGED <<now, fetchable, unwritable, calls, otherVars, upserts, rows, dataExists, lastPulled,
                   pullVars, workerVars>>

\* ... and then the frame is written and the file closed
PullQueueFlush ==
    /\ pc = "p_qflush"
    /\ queueFile' = [state |-> "ok", rows |-> combined]
    /\ pc' = "p_policy"
    /\ UNCHANGED <<now, fetchable, unwritable, calls, otherVars, upserts, rows, dataExists, lastPulled,
                   pullVars, workerVars>>

\* variant: any entity still failing after the second pass gives status 1
ExitCodeAnyFailure(st, qfile) ==
    IF \E i \in DOMAIN st : st[i].status = "error_second_pass" THEN 1 ELSE 0

\* the exit code policy
ExitCode(st, qfile) ==
    IF st # <<>> /\ ~(\E i \in DOMAIN st :
                        st[i].status \in {"ok", "ok_second_pass", "already_have"})
    THEN (IF qfile.state # "absent" THEN 0 ELSE 1)
    ELSE 0

\* `Exit code policy`: the value main is about to return
PullPolicy ==
    /\ pc = "p_policy"
    /\ ret' = ExitCode(stats, queueFile)
    /\ pc' = "p_exit"
    /\ UNCHANGED <<now, fetchable, unwritable, calls, otherVars, upserts, fileVars, lastPulled, target_date,
                   existing, existing_keys, stats, first_pass_errors, pi,
                   combined, out1, out2, price_lookup, picked, returns,
                   workerVars>>

\* `return`: the process ends with status ret
PullExit ==
    /\ pc = "p_exit"
    /\ lastPulled' = target_date
    /\ pc' = "idle"
    /\ now' = Advance(now)
    /\ PullReset
    /\ calls' = <<>>
    /\ UNCHANGED <<fetchable, unwritable, otherVars, upserts, fileVars, workerVars>>

\* an uncaught exception ends the process: pd.read_csv of a zero-byte queue
\* file raises EmptyDataError in upsert_missing_queue
PullCrash ==
    /\ pc = "p_queue"
    /\ FinalFailures(stats) # <<>>
    /\ queueFile.state = "empty0"
    /\ pc' = "idle"
    /\ now' = Advance(now)
    /\ PullReset
    /\ calls' = <<>>
    /\ UNCHANGED <<fetchable, unwritable, otherVars, upserts, fileVars, lastPulled, workerVars>>

\* ------------------------------------------------------ retry_missing.main
\* the two early `return 0`: no queue file, or a queue without rows
WorkerNothing ==
    /\ pc = "idle"
    /\ \/ queueFile.state = "absent"
       \/ queueFile.state = "ok" /\ queueFile.rows = <<>>
    /\ now' = Advance(now)
    /\ UNCHANGED <<fetchable, unwritable, calls, otherVars, upserts, fileVars, pc, lastPulled, pullVars, workerVars>>

\* pd.read_csv(QUEUE_PATH) raises on a zero-byte file; FileNotFoundError
\* when the main data file is missing
WorkerCrash ==
    /\ pc = "idle"
    /\ \/ queueFile.state = "empty0"
       \/ queueFile.state = "ok" /\ queueFile.rows # <<>> /\ ~dataExists
    /\ now' = Advance(now)
    /\ UNCHANGED <<fetchable, unwritable, calls, otherVars, upserts, fileVars, pc, lastPulled, pullVars, workerVars>>

WorkerStart ==
    /\ pc = "idle"
    /\ queueFile.state = "ok" /\ queueFile.rows # <<>>
    /\ dataExists
    /\ w_existing_keys' = ExistingKeys(rows)
    /\ w_price_lookup' = build_price_lookup(rows)
    /\ now_utc' = now
    /\ queue' = SortValues(queueFile.rows, "first_seen_utc")
    /\ groups' = GroupOrder(queue')
    /\ success_indices' = {}
    /\ pc' = "w_group"
    /\ UNCHANGED <<now, fetchable, unwritable, calls, otherVars, upserts, fileVars, lastPulled, pullVars,
                   pending_rows, hist, wout>>

\* a failed attempt may be observed only while the counter is below the bound
BelowCap(q, idxs) == \A i \in idxs : q[i].attempts < MaxAttempts

\* one iteration of `for coin_id, g in queue.groupby(...)` up to the fetch
WorkerGroup ==
    /\ pc = "w_group"
    /\ groups # <<>>
    /\ LET c == Head(groups)
           done == AlreadyPresent(queue, c, w_existing_keys)
           pend == PendingRows(queue, c, w_existing_keys)
           pendSet == {pend[k] : k \in DOMAIN pend}
       IN  /\ success_indices' = success_indices \cup done
           /\ IF pend = <<>>
              THEN /\ groups' = Tail(groups)
                   /\ UNCHANGED <<queue, pending_rows, hist, wout, pc, calls>>
              ELSE \E resp \in GatewayResponses(c, now,
                                   DaysNeeded(queue, pend, DateOf(now)),
                                   c \in fetchable) :
                   /\ (resp.ok /\ resp.hist # <<>>) \/ BelowCap(queue, pendSet)
                   /\ calls' = Append(calls, FetchCall(c, 0, pend))
                   /\ IF ~resp.ok
                      THEN /\ queue' = MarkFailed(queue, pendSet, "FetchFailed",
                                                  now_utc)
                           /\ wout' = [wout EXCEPT ![c] = "FetchFailed"]
                           /\ groups' = Tail(groups)
                           /\ UNCHANGED <<pending_rows, hist, pc>>
                      ELSE /\ hist' = resp.hist
                           /\ pending_rows' = pend
                           /\ wout' = [wout EXCEPT ![c] =
                                  IF resp.hist = <<>> THEN "EmptyHistory" ELSE "ok"]
                           /\ pc' = "w_item"
                           /\ UNCHANGED <<queue, groups>>
    /\ UNCHANGED <<now, fetchable, unwritable, otherVars, upserts, fileVars, lastPulled, pullVars,
                   w_existing_keys, now_utc, w_price_lookup>>

\* one iteration of `for idx, r in pending_rows`
WorkerItem ==
    /\ pc = "w_item"
    /\ pending_rows # <<>>
    /\ LET idx == Head(pending_rows)
           c == queue[idx].id
           d == queue[idx].date
           res == TryAppend(TrySample([ok |-> TRUE, hist |-> hist], d),
                            unwritable)
       IN  IF res.ok
           THEN /\ rows' = append_row_to_csv(rows,
                                 NewRow(c, d, res.price, w_price_lookup, now_utc))
                /\ w_existing_keys' = w_existing_keys \cup {<<c, d>>}
                /\ w_price_lookup' = LookupSet(w_price_lookup, c, d, res.price)
                /\ success_indices' = success_indices \cup {idx}
                /\ UNCHANGED queue
           ELSE /\ BelowCap(queue, {idx})
                /\ queue' = MarkFailed(queue, {idx}, res.msg, now_utc)
                /\ UNCHANGED <<rows, w_existing_keys, w_price_lookup,
                               success_indices>>
    /\ pending_rows' = Tail(pending_rows)
    /\ UNCHANGED <<now, fetchable, unwritable, calls, otherVars, upserts, dataExists, queueFile, pc,
                   lastPulled, pullVars, now_utc, groups, hist, wout>>

WorkerItemsDone ==
    /\ pc = "w_item"
    /\ pending_rows = <<>>
    /\ groups' = Tail(groups)
    /\ hist' = <<>>
    /\ pc' = "w_group"
    /\ UNCHANGED <<now, fetchable, unwritable, calls, otherVars, upserts, fileVars, lastPulled, pullVars,
                   queue, w_existing_keys, now_utc, success_indices,
                   pending_rows, wout, w_price_lookup>>

\* queue_remaining.to_csv(QUEUE_PATH): open for writing (truncate) ...
WorkerQueueOpen ==
    /\ pc = "w_group"
    /\ groups = <<>>
    /\ queueFile' = [state |-> "empty0", rows |-> <<>>]
    /\ pc' = "w_flush"
    /\ UNCHANGED <<now, fetchable, unwritable, calls, otherVars, upserts, rows, dataExists, lastPulled,
                   pullVars, workerVars>>

\* ... then write the remaining items and close
WorkerQueueFlush ==
    /\ pc = "w_flush"
    /\ queueFile' = [state |-> "ok",
                     rows |-> QueueRemaining(queue, success_indices)]
    /\ pc' = "w_exit"
    /\ UNCHANGED <<now, fetchable, unwritable, calls, otherVars, upserts, rows, dataExists, lastPulled,
                   pullVars, workerVars>>

WorkerExit ==
    /\ pc = "w_exit"
    /\ pc' = "idle"
    /\ now' = Advance(now)
    /\ WorkerReset
    /\ calls' = <<>>
    /\ UNCHANGED <<fetchable, unwritable, otherVars, upserts, fileVars, lastPulled, pullVars>>

\* the process is killed: its memory is gone, the files stay as they are
Kill ==
    /\ pc # "idle"
    /\ pc' = "idle"
    /\ now' = Advance(now)
    /\ PullReset
    /\ WorkerReset
    /\ calls' = <<>>
    /\ UNCHANGED <<fetchable, unwritable, otherVars, upserts, fileVars, lastPulled>>

Pull ==
    \/ PullStart
    \/ PullFirst
    \/ PullFirstDone
    \/ PullSecond
    \/ PullSecondDone
    \/ PullQueue
    \/ PullQueueOpen
    \/ PullQueueFlush
    \/ PullPolicy
    \/ PullExit

Worker ==
    \/ WorkerStart
    \/ WorkerGroup
    \/ WorkerItem
    \/ WorkerItemsDone
    \/ WorkerQueueOpen
    \/ WorkerQueueFlush
    \/ WorkerExit

Next ==
    \/ Tick
    \/ Pull
    \/ PullCrash
    \/ Worker
    \/ WorkerNothing
    \/ WorkerCrash
    \/ Kill

Spec == Init /\ [][Next]_vars

\* ------------------------------------- the programs on an unwritable medium
\* the data file becomes unwritable, or writable again, at any moment
Fault ==
    /\ unwritable' = ~unwritable
    /\ UNCHANGED <<now, fetchable, calls, otherVars, upserts, fileVars, pc,
                   lastPulled, pullVars, workerVars>>

\* _ensure_output_header cannot create the missing data file: the OSError of
\* to_csv is not caught and ends api_pull before its first pass
PullHeaderCrash ==
    /\ pc = "idle"
    /\ ~dataExists /\ unwritable
    /\ now' = Advance(now)
    /\ UNCHANGED <<fetchable, unwritable, calls, otherVars, upserts, fileVars,
                   pc, lastPulled, pullVars, workerVars>>

FaultNext ==
    \/ Fault
    \/ Pull
    \/ PullHeaderCrash
    \/ Worker
    \/ WorkerNothing

FaultSpec == Init /\ [][FaultNext]_vars

\* ------------------------------------------- upsert_missing_queue on its own
\* the missing_items a caller may pass
MaxItems == 2
MaxUpserts == 2
ItemSet ==
    [id : Coins, date : Dates, attempts : 1..MaxAttempts,
     last_error : {"FetchFailed"}, status : {"queued"}]
ItemLists ==
    UNION {[1..n -> ItemSet] : n \in 1..MaxItems}

RECURSIVE UpsertCount(_, _)
\* number of (call, key) pairs recorded so far for the keys of S
UpsertCount(f, S) ==
    IF S = {} THEN 0
    ELSE LET k == CHOOSE x \in S : TRUE
         IN  Len(f[k]) + UpsertCount(f, S \ {k})

\* one whole call: read the file, merge, write the file
UpsertCall(items) ==
    /\ pc = "idle"
    /\ queueFile.state # "empty0"
    /\ UpsertCount(upserts, Keys) < MaxUpserts
    /\ queueFile' = [state |-> "ok", rows |-> Combined(queueFile, items, now)]
    /\ upserts' = [k \in Keys |->
          IF \E j \in DOMAIN items : KeyOf(items[j]) = k
          THEN LET last == CHOOSE j \in DOMAIN items :
                             /\ KeyOf(items[j]) = k
                             /\ \A j2 \in DOMAIN items :
                                  KeyOf(items[j2]) = k => j2 <= j
               IN  Append(upserts[k], [t |-> now, attempts |-> items[last].attempts])
          ELSE upserts[k]]
    /\ UNCHANGED <<now, fetchable, unwritable, calls, otherVars, rows, dataExists, pc, lastPulled, pullVars,
                   workerVars>>

UpsertNext ==
    \/ Tick
    \/ \E items \in ItemLists : UpsertCall(items)

UpsertSpec == Init /\ [][UpsertNext]_vars

\* ------------------------------------------------- the retry worker alone
\* The worker runs, again and again, on day WorkerToday, over a queue as
\* api_pull leaves it: items queued at the midnight tick of their date
\* after two failed passes, some of them filled in the meantime.
WorkerKeys == Coins \X WorkerDates

RECURSIVE FilledRows(_, _)
\* the rows of the first n keys of ks, each appended with the returns the
\* rows before it give
FilledRows(ks, n) ==
    IF n = 0 THEN <<>>
    ELSE append_row_to_csv(FilledRows(ks, n - 1),
             NewRow(ks[n][1], ks[n][2], PriceAt(ks[n][1], Midnight(ks[n][2])),
                    build_price_lookup(FilledRows(ks, n - 1)),
                    Midnight(ks[n][2])))

RECURSIVE KeySeq(_)
\* the keys of a set in (id, date) order
KeySeq(S) ==
    IF S = {} THEN <<>>
    ELSE LET k == CHOOSE x \in S :
                    \A y \in S : x[1] < y[1] \/ (x[1] = y[1] /\ x[2] <= y[2])
         IN  <<k>> \o KeySeq(S \ {k})

QueuedItem(k) ==
    [id |-> k[1], date |-> k[2], attempts |-> 1, last_error |-> "FetchFailed",
     status |-> "queued", first_seen_utc |-> Midnight(k[2]),
     last_attempt_utc |-> Midnight(k[2])]

WorkerInit ==
    /\ now = Midnight(WorkerToday)
    /\ fetchable = {}
    /\ unwritable = FALSE
    /\ calls = <<>>
    /\ OtherIdle
    /\ upserts = [k \in Keys |-> <<>>]
    /\ dataExists = TRUE
    /\ \E queued \in (SUBSET WorkerKeys) \ {{}} :
          /\ queueFile = [state |-> "ok",
                          rows |-> [i \in DOMAIN KeySeq(queued) |->
                                       QueuedItem(KeySeq(queued)[i])]]
          /\ \E filled \in SUBSET queued :
                rows = FilledRows(KeySeq(filled), Cardinality(filled))
    /\ pc = "idle"
    /\ lastPulled = NA
    /\ PullIdle
    /\ WorkerIdle

WorkerNext ==
    \/ \E c \in Coins : Stabilise(c)
    \/ Worker
    \/ WorkerNothing

\* the worker keeps being run, and a started run runs to its end
WorkerSpec ==
    /\ WorkerInit
    /\ [][WorkerNext]_vars
    /\ WF_vars(Worker)

\* the retry worker alone, killed at any point of a run
WorkerKillNext ==
    \/ WorkerNext
    \/ WorkerCrash
    \/ Kill

WorkerKillSpec == WorkerInit /\ [][WorkerKillNext]_vars

\* ------------------------------------ an api_pull run overlapping a worker run
\* The day is day 1, the later of the WorkerDates: the key api_pull queues
\* for an entity today may or may not be in the queue already.
OverlapInit ==
    /\ now = Midnight(1)
    /\ fetchable = {}
    /\ unwritable = FALSE
    /\ calls = <<>>
    /\ OtherIdle
    /\ upserts = [k \in Keys |-> <<>>]
    /\ dataExists = TRUE
    /\ \E queued \in (SUBSET WorkerKeys) \ {{}} :
          /\ queueFile = [state |-> "ok",
                          rows |-> [i \in DOMAIN KeySeq(queued) |->
                                       QueuedItem(KeySeq(queued)[i])]]
          /\ \E filled \in SUBSET queued :
                rows = FilledRows(KeySeq(filled), Cardinality(filled))
    /\ pc = "idle"
    /\ lastPulled = NA
    /\ PullIdle
    /\ WorkerIdle

\* the api_pull run of the day, in another process, reaches
\* upsert_missing_queue(queue_rows) for the entities that failed both passes,
\* after the worker has read the queue and before the worker writes it
OverlapUpsert ==
    /\ pc \in {"w_group", "w_item"}
    /\ lastPulled = NA
    /\ queueFile.state # "empty0"
    /\ \E failed \in (SUBSET Coins) \ {{}} :
          /\ \A c \in failed : <<c, DateOf(now)>> \notin KeysOf(rows)
          /\ stats' = [k \in 1..Cardinality(failed) |->
                          Stat(KeySeq(failed \X {DateOf(now)})[k][1],
                               "error_second_pass", "FetchFailed")]
    /\ target_date' = DateOf(now)
    /\ \E items \in {[k \in DOMAIN FinalFailures(stats') |->
                          QueueRow(FinalFailures(stats')[k], target_date')]} :
          combined' = Combined(queueFile, items, now)
    /\ queueFile' = [state |-> "ok", rows |-> combined']
    /\ lastPulled' = target_date'
    /\ UNCHANGED <<now, fetchable, unwritable, calls, otherVars, upserts, rows,
                   dataExists, pc, existing, existing_keys, first_pass_errors,
                   pi, out1, out2, price_lookup, ret, picked, returns,
                   workerVars>>

\* both processes have ended
OverlapExit ==
    /\ pc = "w_exit"
    /\ pc' = "idle"
    /\ PullReset
    /\ WorkerReset
    /\ calls' = <<>>
    /\ UNCHANGED <<now, fetchable, unwritable, otherVars, upserts, fileVars,
                   lastPulled>>

OverlapNext ==
    \/ \E c \in Coins : Stabilise(c)
    \/ WorkerStart
    \/ WorkerGroup
    \/ WorkerItem
    \/ WorkerItemsDone
    \/ WorkerQueueOpen
    \/ WorkerQueueFlush
    \/ OverlapUpsert
    \/ OverlapExit

OverlapSpec == OverlapInit /\ [][OverlapNext]_vars

\* --------------------------------------- the history window of one entity
\* the age in days of the oldest item the window is computed for
MaxAge == 95

\* one entity with one or two pending items of any age up to MaxAge, in
\* either order, at the point where the window is computed
WindowInit ==
    /\ \E o \in 0..(TicksPerDay - 1) : now = Midnight(MaxAge) + o
    /\ fetchable = {}
    /\ unwritable = FALSE
    /\ calls = <<>>
    /\ OtherIdle
    /\ upserts = [k \in Keys |-> <<>>]
    /\ dataExists = TRUE
    /\ rows = <<>>
    /\ \E d1 \in 0..MaxAge, d2 \in 0..MaxAge :
          /\ queue = IF d1 = d2 THEN <<QueuedItem(<<Universe[1], d1>>)>>
                     ELSE <<QueuedItem(<<Universe[1], d1>>),
                            QueuedItem(<<Universe[1], d2>>)>>
          /\ queueFile = [state |-> "ok", rows |-> queue]
          /\ pending_rows = [i \in DOMAIN queue |-> i]
    /\ pc = "d_window"
    /\ lastPulled = NA
    /\ PullIdle
    /\ w_existing_keys = {} /\ now_utc = now
    /\ success_indices = {} /\ groups = <<Universe[1]>>
    /\ hist = <<>> /\ wout = NoOutcome /\ w_price_lookup = EmptyLookup

\* oldest_date, today_utc, days_needed and the fetch of that window
WindowFetch ==
    /\ pc = "d_window"
    /\ \E days \in {DaysNeeded(queue, pending_rows, DateOf(now))} :
          /\ days_needed' = days
          /\ \E resp \in GatewayResponses(Head(groups), now, days, FALSE) :
                /\ hist' = resp.hist
                /\ wout' = [wout EXCEPT ![Head(groups)] =
                       IF ~resp.ok THEN "FetchFailed"
                       ELSE IF resp.hist = <<>> THEN "EmptyHistory" ELSE "ok"]
    /\ pc' = "d_done"
    /\ UNCHANGED <<now, fetchable, unwritable, calls, attempt, outcome,
                   all_new_rows, backfilled, upserts, fileVars, lastPulled,
                   pullVars, queue, w_existing_keys, now_utc, success_indices,
                   groups, pending_rows, w_price_lookup>>

WindowNext == WindowFetch

WindowSpec == WindowInit /\ [][WindowNext]_vars

\* ------------------------------------------- the midnight sampler on its own
\* get_recent_history_for_coin sorts what the API sent; pick_midnight_for_date
\* is then called on it (and, directly, on a history in any order)
MaxHist == 3
MaxTs == 4
SamplerDates == 0..(MaxTs \div TicksPerDay)
Observation(ts) == [timestamp_utc |-> ts, price |-> PriceAt(1, ts)]
RawHistories ==
    UNION {[1..n -> {Observation(ts) : ts \in 0..MaxTs}] : n \in 0..MaxHist}

SamplerInit ==
    /\ now = 0
    /\ fetchable = {}
    /\ unwritable = FALSE
    /\ calls = <<>>
    /\ OtherIdle
    /\ rows = <<>>
    /\ dataExists = FALSE
    /\ queueFile = [state |-> "absent", rows |-> <<>>]
    /\ lastPulled = NA
    /\ upserts = [k \in Keys |-> <<>>]
    /\ pc = "s_raw"
    /\ hist \in RawHistories
    /\ target_date \in SamplerDates
    /\ existing = <<>> /\ existing_keys = {}
    /\ stats = <<>> /\ first_pass_errors = <<>> /\ pi = 0
    /\ combined = <<>> /\ out1 = NoOutcome /\ out2 = NoOutcome
    /\ price_lookup = EmptyLookup /\ ret = NA
    /\ picked = <<>> /\ returns = <<>>
    /\ queue = <<>> /\ w_existing_keys = {} /\ now_utc = NA
    /\ success_indices = {} /\ groups = <<>> /\ pending_rows = <<>>
    /\ wout = NoOutcome /\ w_price_lookup = EmptyLookup

\* df.sort_values("timestamp_utc").reset_index(drop=True)
SamplerSort ==
    /\ pc = "s_raw"
    /\ hist' = SortValues(hist, "timestamp_utc")
    /\ pc' = "s_sorted"
    /\ UNCHANGED <<now, fetchable, unwritable, calls, otherVars, upserts, fileVars, lastPulled, pullVars,
                   queue, w_existing_keys, now_utc, success_indices, groups,
                   pending_rows, wout, w_price_lookup>>

\* picked = pick_midnight_for_date(hist_df, target_date)
SamplerPick ==
    /\ pc \in {"s_raw", "s_sorted"}
    /\ hist # <<>>
    /\ picked' = <<pick_midnight_for_date(hist, target_date)>>
    /\ pc' = "s_done"
    /\ UNCHANGED <<now, fetchable, unwritable, calls, otherVars, upserts, fileVars, lastPulled, target_date,
                   existing, existing_keys, stats, first_pass_errors, pi,
                   combined, out1, out2, price_lookup, ret, returns,
                   workerVars>>

\* idxmin of an empty column raises ValueError
SamplerRaise ==
    /\ pc \in {"s_raw", "s_sorted"}
    /\ hist = <<>>
    /\ pc' = "s_raised"
    /\ UNCHANGED <<now, fetchable, unwritable, calls, otherVars, upserts, fileVars, lastPulled, pullVars,
                   workerVars>>

SamplerNext ==
    \/ SamplerSort
    \/ SamplerPick
    \/ SamplerRaise

SamplerSpec == SamplerInit /\ [][SamplerNext]_vars

\* ------------------------------------ compute_returns_for_new_row on its own
\* the call for a new row of date D over every price_lookup that holds, for
\* each coin, any of the prices of D - 30, D - 7, D - 2 and D - 1
ReturnTargets == {30}
LookupDates == {0, 23, 28, 29}
LookupPrices == {0, 100}
CurrentPrices == {50, 200}
PriceLookups ==
    UNION {[S -> LookupPrices] : S \in SUBSET (Coins \X LookupDates)}

ReturnsInit ==
    /\ now = 0
    /\ fetchable = {}
    /\ unwritable = FALSE
    /\ calls = <<>>
    /\ OtherIdle
    /\ rows = <<>>
    /\ dataExists = FALSE
    /\ queueFile = [state |-> "absent", rows |-> <<>>]
    /\ lastPulled = NA
    /\ upserts = [k \in Keys |-> <<>>]
    /\ pc = "r_call"
    /\ target_date \in ReturnTargets
    /\ pi \in DOMAIN Universe
    /\ \E ts \in {Midnight(target_date)}, price \in CurrentPrices :
          picked = <<[timestamp_utc |-> ts, price |-> price]>>
    /\ price_lookup \in PriceLookups
    /\ existing = <<>> /\ existing_keys = {}
    /\ stats = <<>> /\ first_pass_errors = <<>>
    /\ combined = <<>> /\ out1 = NoOutcome /\ out2 = NoOutcome
    /\ ret = NA /\ returns = <<>>
    /\ WorkerIdle

\* r1, r7, r30 = compute_returns_for_new_row(coin_id, target_date,
\*                                            current_price, price_lookup)
ComputeReturns ==
    /\ pc = "r_call"
    /\ returns' = <<compute_returns_for_new_row(Universe[pi], target_date,
                                                picked[1].price, price_lookup)>>
    /\ pc' = "r_done"
    /\ UNCHANGED <<now, fetchable, unwritable, calls, otherVars, upserts, fileVars, lastPulled, target_date,
                   existing, existing_keys, stats, first_pass_errors, pi,
                   combined, out1, out2, price_lookup, ret, picked,
                   workerVars>>

ReturnsNext == ComputeReturns

ReturnsSpec == ReturnsInit /\ [][ReturnsNext]_vars

\* ------------------------------------------- the timestamped (legacy) file
\* Before clean_to_date ran, data/coingecko_markets.csv had a timestamp_utc
\* column and no date column.  A legacy table: up to MaxRows rows of any
\* coin, stamped on day 0 (at midnight or later), at midnight of day 1, on
\* day 3, or with a timestamp to_datetime(errors="coerce") cannot parse (NA);
\* the i-th row of the file has price 100 * i, so that no two rows agree.
MaxRows == 3
LegacyStamps == {NA, 0, 1, Midnight(1), Midnight(3)}
LegacyRow(c, ts, price) ==
    [id |-> c, timestamp_utc |-> ts, current_price |-> price,
     price_change_percentage_24h_in_currency |-> None,
     price_change_percentage_7d_in_currency |-> None,
     price_change_percentage_30d_in_currency |-> None]
LegacyTables ==
    UNION {{[i \in 1..n |-> LegacyRow(f[i][1], f[i][2], 100 * i)] :
              f \in [1..n -> Coins \X LegacyStamps]} : n \in 0..MaxRows}

\* "timestamp_utc" in df.columns (an empty file is one with the old header)
HasTimestamps(data) == \A i \in DOMAIN data : "timestamp_utc" \in DOMAIN data[i]

\* df.dropna(subset=["timestamp_utc"]) after to_datetime(errors="coerce")
DropNaT(data) ==
    SelectIdx(data, {i \in DOMAIN data : data[i].timestamp_utc # NA}, 1)

\* df["date"] = df["timestamp_utc"].dt.date
WithDate(data) ==
    [i \in DOMAIN data |->
        [id |-> data[i].id, timestamp_utc |-> data[i].timestamp_utc,
         date |-> DateOf(data[i].timestamp_utc),
         current_price |-> data[i].current_price,
         price_change_percentage_24h_in_currency |->
             data[i].price_change_percentage_24h_in_currency,
         price_change_percentage_7d_in_currency |->
             data[i].price_change_percentage_7d_in_currency,
         price_change_percentage_30d_in_currency |->
             data[i].price_change_percentage_30d_in_currency]]

\* df.drop(columns=["timestamp_utc", "timestamp_ms"])
DropTimestamp(data) ==
    [i \in DOMAIN data |->
        [id |-> data[i].id, date |-> data[i].date,
         current_price |-> data[i].current_price,
         price_change_percentage_24h_in_currency |->
             data[i].price_change_percentage_24h_in_currency,
         price_change_percentage_7d_in_currency |->
             data[i].price_change_percentage_7d_in_currency,
         price_change_percentage_30d_in_currency |->
             data[i].price_change_percentage_30d_in_currency]]

\* position of row i in its group of groupby("id")
GroupPos(df, i) == Cardinality({j \in 1..i : df[j].id = df[i].id})

\* g["current_price"].pct_change(periods=n) * 100 at row i: against the row
\* n places before it in its group, in whole percent rounded down (the prices
\* of the file are positive)
PctChange(df, i, n) ==
    IF GroupPos(df, i) <= n THEN None
    ELSE LET j == CHOOSE k \in 1..i :
                    df[k].id = df[i].id /\ GroupPos(df, k) = GroupPos(df, i) - n
         IN  <<((df[i].current_price - df[j].current_price) * 100)
                  \div df[j].current_price>>

\* df.groupby("id", group_keys=False).apply(_add_returns) on a frame sorted
\* by id
AddReturns(df) ==
    [i \in DOMAIN df |->
        [df[i] EXCEPT
           !.price_change_percentage_24h_in_currency = PctChange(df, i, 1),
           !.price_change_percentage_7d_in_currency = PctChange(df, i, 7),
           !.price_change_percentage_30d_in_currency = PctChange(df, i, 30)]]

\* clean_to_date.recompute_returns
recompute_returns(df) ==
    CHOOSE out \in {AddReturns(sorted) : sorted \in {SortValues(df, "id_date")}} :
        TRUE

\* variant: no sort before the de-duplication
CleanDedupUnsorted(df) == DropDuplicatesKeepLast(df)

\* df.sort_values(["id", "timestamp_utc"]), then
\* df.drop_duplicates(subset=["id", "date"], keep="last")
CleanDedup(df) ==
    CHOOSE out \in {DropDuplicatesKeepLast(sorted) :
                       sorted \in {SortValues(df, "id_timestamp_utc")}} : TRUE

\* the frame clean_to_date.main writes for the file content data
CleanFrame(data) ==
    CHOOSE out \in
        {recompute_returns(DropTimestamp(kept)) :
           kept \in {CleanDedup(dated) :
                       dated \in {WithDate(valid) : valid \in {DropNaT(data)}}}} :
        TRUE

\* ------------------------------------------------ clean_to_date.main alone
CleanInit ==
    /\ now = 0
    /\ fetchable = {}
    /\ unwritable = FALSE
    /\ calls = <<>>
    /\ OtherIdle
    /\ dataExists \in BOOLEAN
    /\ rows \in (IF dataExists THEN LegacyTables ELSE {<<>>})
    /\ queueFile = [state |-> "absent", rows |-> <<>>]
    /\ lastPulled = NA
    /\ upserts = [k \in Keys |-> <<>>]
    /\ pc = "idle"
    /\ PullIdle
    /\ WorkerIdle

\* the two `return 1`: no data file, or a file without timestamp_utc
CleanRefuse ==
    /\ pc = "idle"
    /\ ~dataExists \/ ~HasTimestamps(rows)
    /\ existing' = rows
    /\ ret' = 1
    /\ pc' = "c_exit"
    /\ UNCHANGED <<now, fetchable, unwritable, calls, otherVars, upserts,
                   fileVars, lastPulled, target_date, existing_keys, stats,
                   first_pass_errors, pi, combined, out1, out2, price_lookup,
                   picked, returns, workerVars>>

\* the whole pass: read, derive the date, de-duplicate, recompute, write
CleanMain ==
    /\ pc = "idle"
    /\ dataExists /\ HasTimestamps(rows)
    /\ existing' = rows
    /\ rows' = CleanFrame(rows)
    /\ ret' = 0
    /\ pc' = "c_exit"
    /\ UNCHANGED <<now, fetchable, unwritable, calls, otherVars, upserts,
                   dataExists, queueFile, lastPulled, target_date,
                   existing_keys, stats, first_pass_errors, pi, combined, out1,
                   out2, price_lookup, picked, returns, workerVars>>

\* raise SystemExit(main())
CleanExit ==
    /\ pc = "c_exit"
    /\ pc' = "idle"
    /\ PullReset
    /\ UNCHANGED <<now, fetchable, unwritable, calls, otherVars, upserts,
                   fileVars, lastPulled, workerVars>>

CleanNext ==
    \/ CleanRefuse
    \/ CleanMain
    \/ CleanExit

CleanSpec == CleanInit /\ [][CleanNext]_vars

\* --------------------------------------------- backfill_dec4_5_6.main alone
\* the dates to fill, 2025-12-04 being day 0, and the days of history asked
TARGET_DATES == <<0, 1, 2>>
BACKFILL_HISTORY_DAYS == 10

\* df after to_datetime, dropna and the date_only column
BackfillDf(data) == WithDate(DropNaT(data))

\* missing_dates of coin c: the target dates without a row of c in df
MissingDates(df, c) ==
    SelectIdx(TARGET_DATES,
              {k \in DOMAIN TARGET_DATES :
                 \A i \in DOMAIN df : ~(df[i].id = c /\ df[i].date = TARGET_DATES[k])},
              1)

\* the new_row of each missing date, stamped at the midnight of the date
BackfillRows(c, missing, history) ==
    [k \in DOMAIN missing |->
        LegacyRow(c, Midnight(missing[k]),
                  pick_midnight_for_date(history, missing[k]).price)]

\* combined.drop_duplicates(subset=["id", "timestamp_utc"]): keep="first"
DropDuplicateStamps(df) ==
    SelectIdx(df, {i \in DOMAIN df :
                     \A j \in DOMAIN df :
                        j < i => ~(/\ df[j].id = df[i].id
                                   /\ df[j].timestamp_utc = df[i].timestamp_utc)}, 1)

\* backfill_dec4_5_6.recompute_returns
backfill_recompute_returns(df) ==
    CHOOSE out \in {AddReturns(sorted) :
                       sorted \in {SortValues(valid, "id_timestamp_utc") :
                                     valid \in {DropNaT(df)}}} : TRUE

\* the frame main writes: concat, de-duplicate, recompute
BackfillFrame(data, new) ==
    CHOOSE out \in {backfill_recompute_returns(DropDuplicateStamps(valid)) :
                       valid \in {DropNaT(DropNaT(data) \o new)}} : TRUE

BackfillInit ==
    /\ now = Midnight(3)
    /\ fetchable = {}
    /\ unwritable = FALSE
    /\ calls = <<>>
    /\ OtherIdle
    /\ dataExists \in BOOLEAN
    /\ rows \in (IF dataExists THEN LegacyTables ELSE {<<>>})
    /\ queueFile = [state |-> "absent", rows |-> <<>>]
    /\ lastPulled = NA
    /\ upserts = [k \in Keys |-> <<>>]
    /\ pc = "idle"
    /\ PullIdle
    /\ WorkerIdle

\* the two `return 1`: no data file, or a file without timestamp_utc
BackfillRefuse ==
    /\ pc = "idle"
    /\ ~dataExists \/ ~HasTimestamps(rows)
    /\ existing' = rows
    /\ ret' = 1
    /\ pc' = "b_exit"
    /\ UNCHANGED <<now, fetchable, unwritable, calls, otherVars, upserts,
                   fileVars, lastPulled, target_date, existing_keys, stats,
                   first_pass_errors, pi, combined, out1, out2, price_lookup,
                   picked, returns, workerVars>>

\* df = pd.read_csv(OUTPUT_PATH) up to the loop over the universe
BackfillStart ==
    /\ pc = "idle"
    /\ dataExists /\ HasTimestamps(rows)
    /\ existing' = rows
    /\ stats' = <<>>
    /\ all_new_rows' = <<>>
    /\ pi' = 1
    /\ pc' = "b_loop"
    /\ UNCHANGED <<now, days_needed, fetchable, unwritable, calls, attempt, outcome,
                   backfilled, upserts, fileVars, lastPulled, target_date,
                   existing_keys, first_pass_errors, combined, out1, out2,
                   price_lookup, ret, picked, returns, workerVars>>

\* one iteration of `for _, row in universe.iterrows()`
BackfillCoin ==
    /\ pc = "b_loop"
    /\ pi <= Len(Universe)
    /\ LET c == Universe[pi]
           missing_dates == MissingDates(BackfillDf(existing), c)
       IN  IF missing_dates = <<>>
           THEN /\ stats' = Append(stats, Stat(c, "already_complete", ""))
                /\ UNCHANGED <<calls, all_new_rows>>
           ELSE \E resp \in GatewayResponses(c, now, BACKFILL_HISTORY_DAYS,
                                              c \in fetchable) :
                /\ ~(resp.ok /\ resp.hist = <<>>)
                /\ calls' = Append(calls, FetchCall(c, 0, <<>>))
                /\ IF ~resp.ok
                   THEN /\ stats' = Append(stats, Stat(c, "error", "FetchFailed"))
                        /\ UNCHANGED all_new_rows
                   ELSE /\ all_new_rows' =
                              all_new_rows \o BackfillRows(c, missing_dates, resp.hist)
                        /\ stats' = Append(stats, Stat(c, "ok", ""))
    /\ pi' = pi + 1
    /\ UNCHANGED <<now, days_needed, fetchable, unwritable, attempt, outcome, backfilled,
                   upserts, fileVars, pc, lastPulled, target_date, existing,
                   existing_keys, first_pass_errors, combined, out1, out2,
                   price_lookup, ret, picked, returns, workerVars>>

\* pick_midnight_for_date is called outside any try block: the ValueError of
\* an empty history ends the process before anything is written
BackfillCrash ==
    /\ pc = "b_loop"
    /\ pi <= Len(Universe)
    /\ MissingDates(BackfillDf(existing), Universe[pi]) # <<>>
    /\ [ok |-> TRUE, hist |-> <<>>]
          \in GatewayResponses(Universe[pi], now, BACKFILL_HISTORY_DAYS,
                                Universe[pi] \in fetchable)
    /\ pc' = "idle"
    /\ PullReset
    /\ calls' = <<>>
    /\ all_new_rows' = <<>>
    /\ backfilled' = FALSE
    /\ UNCHANGED <<now, days_needed, fetchable, unwritable, attempt, outcome, upserts,
                   fileVars, lastPulled, workerVars>>

\* after the loop: nothing to append, or the whole file is written anew
BackfillSave ==
    /\ pc = "b_loop"
    /\ pi > Len(Universe)
    /\ rows' = IF all_new_rows = <<>> THEN rows
               ELSE BackfillFrame(existing, all_new_rows)
    /\ ret' = 0
    /\ pc' = "b_exit"
    /\ UNCHANGED <<now, fetchable, unwritable, calls, otherVars, upserts,
                   dataExists, queueFile, lastPulled, target_date, existing,
                   existing_keys, stats, first_pass_errors, pi, combined, out1,
                   out2, price_lookup, picked, returns, workerVars>>

\* raise SystemExit(main())
BackfillExit ==
    /\ pc = "b_exit"
    /\ pc' = "idle"
    /\ backfilled' = (ret = 0)
    /\ PullReset
    /\ calls' = <<>>
    /\ all_new_rows' = <<>>
    /\ UNCHANGED <<now, days_needed, fetchable, unwritable, attempt, outcome, upserts,
                   fileVars, lastPulled, workerVars>>

BackfillNext ==
    \/ BackfillRefuse
    \/ BackfillStart
    \/ BackfillCoin
    \/ BackfillCrash
    \/ BackfillSave
    \/ BackfillExit

BackfillSpec == BackfillInit /\ [][BackfillNext]_vars

\* --------------------------------------- backfill_specific_dates.main alone
\* the dates to replace (4 and 5 December 2025 are days 0 and 1)
SPECIFIC_TARGET_DATES == <<0, 1>>
SPECIFIC_HISTORY_DAYS == 10
SpecificTargets == {SPECIFIC_TARGET_DATES[k] : k \in DOMAIN SPECIFIC_TARGET_DATES}

\* df after to_datetime, dropna and df[~df["date_only"].isin(TARGET_DATES)]
SpecificDf(data) ==
    SelectIdx(DropNaT(data),
              {i \in DOMAIN DropNaT(data) :
                 DateOf(DropNaT(data)[i].timestamp_utc) \notin SpecificTargets}, 1)

\* coin_meta = df[meta_cols].drop_duplicates(): the coins left in df, in
\* order of first appearance
CoinMeta(df) ==
    LET first == {i \in DOMAIN df : \A j \in DOMAIN df : j < i => df[j].id # df[i].id}
    IN  [k \in DOMAIN SelectIdx(df, first, 1) |-> SelectIdx(df, first, 1)[k].id]

\* add_return_columns: df["price"].pct_change(periods=n) * 100 at sample i of
\* the history
HistPctChange(history, i, n) ==
    IF i <= n THEN None
    ELSE <<((history[i].price - history[i - n].price) * 100)
             \div history[i - n].price>>

\* pick_midnight_rows: for each target date the sample closest to its
\* midnight, with the sample's own timestamp and returns
SpecificRows(c, history) ==
    [k \in DOMAIN SPECIFIC_TARGET_DATES |->
        LET best == pick_midnight_for_date(history, SPECIFIC_TARGET_DATES[k])
            i == CHOOSE n \in DOMAIN history : history[n] = best
        IN  [id |-> c, timestamp_utc |-> best.timestamp_utc,
             current_price |-> best.price,
             price_change_percentage_24h_in_currency |-> HistPctChange(history, i, 1),
             price_change_percentage_7d_in_currency |-> HistPctChange(history, i, 7),
             price_change_percentage_30d_in_currency |-> HistPctChange(history, i, 30)]]

\* pd.concat([df, new_rows_df]).drop_duplicates(subset=["id", "timestamp_utc"])
SpecificFrame(df, new) ==
    CHOOSE out \in {DropDuplicateStamps(both) : both \in {df \o new}} : TRUE

SpecificInit ==
    /\ now = Midnight(3)
    /\ fetchable = {}
    /\ unwritable = FALSE
    /\ calls = <<>>
    /\ OtherIdle
    /\ dataExists \in BOOLEAN
    /\ rows \in (IF dataExists THEN LegacyTables ELSE {<<>>})
    /\ queueFile = [state |-> "absent", rows |-> <<>>]
    /\ lastPulled = NA
    /\ upserts = [k \in Keys |-> <<>>]
    /\ pc = "idle"
    /\ PullIdle
    /\ WorkerIdle

\* the two `return 1`: no data file, or a file without timestamp_utc
SpecificRefuse ==
    /\ pc = "idle"
    /\ ~dataExists \/ ~HasTimestamps(rows)
    /\ existing' = rows
    /\ ret' = 1
    /\ pc' = "f_exit"
    /\ UNCHANGED <<now, fetchable, unwritable, calls, otherVars, upserts,
                   fileVars, lastPulled, target_date, existing_keys, stats,
                   first_pass_errors, pi, combined, out1, out2, price_lookup,
                   picked, returns, workerVars>>

\* df = pd.read_csv(OUTPUT_PATH) up to the loop over coin_meta
SpecificStart ==
    /\ pc = "idle"
    /\ dataExists /\ HasTimestamps(rows)
    /\ existing' = rows
    /\ combined' = SpecificDf(rows)
    /\ stats' = <<>>
    /\ all_new_rows' = <<>>
    /\ pi' = 1
    /\ pc' = "f_loop"
    /\ UNCHANGED <<now, days_needed, fetchable, unwritable, calls, attempt,
                   outcome, backfilled, upserts, fileVars, lastPulled,
                   target_date, existing_keys, first_pass_errors, out1, out2,
                   price_lookup, ret, picked, returns, workerVars>>

\* one iteration of `for _, row in coin_meta.iterrows()`
SpecificCoin ==
    /\ pc = "f_loop"
    /\ pi <= Len(CoinMeta(combined))
    /\ LET c == CoinMeta(combined)[pi]
       IN  \E resp \in GatewayResponses(c, now, SPECIFIC_HISTORY_DAYS,
                                         c \in fetchable) :
             /\ ~(resp.ok /\ resp.hist = <<>>)
             /\ calls' = Append(calls, FetchCall(c, 0, <<>>))
             /\ IF ~resp.ok
                THEN /\ stats' = Append(stats, Stat(c, "error", "FetchFailed"))
                     /\ UNCHANGED all_new_rows
                ELSE /\ all_new_rows' = all_new_rows \o SpecificRows(c, resp.hist)
                     /\ stats' = Append(stats, Stat(c, "ok", ""))
    /\ pi' = pi + 1
    /\ UNCHANGED <<now, days_needed, fetchable, unwritable, attempt, outcome,
                   backfilled, upserts, fileVars, pc, lastPulled, target_date,
                   existing, existing_keys, first_pass_errors, combined, out1,
                   out2, price_lookup, ret, picked, returns, workerVars>>

\* pick_midnight_rows is called outside the try block: idxmin of an empty
\* history raises, and the process ends before anything is written
SpecificCrash ==
    /\ pc = "f_loop"
    /\ pi <= Len(CoinMeta(combined))
    /\ [ok |-> TRUE, hist |-> <<>>]
          \in GatewayResponses(CoinMeta(combined)[pi], now, SPECIFIC_HISTORY_DAYS,
                                CoinMeta(combined)[pi] \in fetchable)
    /\ pc' = "idle"
    /\ PullReset
    /\ calls' = <<>>
    /\ all_new_rows' = <<>>
    /\ backfilled' = FALSE
    /\ UNCHANGED <<now, days_needed, fetchable, unwritable, attempt, outcome,
                   upserts, fileVars, lastPulled, workerVars>>

\* after the loop: `return 1` without writing when there is no new row,
\* else the whole file is written anew
SpecificSave ==
    /\ pc = "f_loop"
    /\ pi > Len(CoinMeta(combined))
    /\ rows' = IF all_new_rows = <<>> THEN rows
               ELSE SpecificFrame(combined, all_new_rows)
    /\ ret' = IF all_new_rows = <<>> THEN 1 ELSE 0
    /\ pc' = "f_exit"
    /\ UNCHANGED <<now, fetchable, unwritable, calls, otherVars, upserts,
                   dataExists, queueFile, lastPulled, target_date, existing,
                   existing_keys, stats, first_pass_errors, pi, combined, out1,
                   out2, price_lookup, picked, returns, workerVars>>

\* raise SystemExit(main())
SpecificExit ==
    /\ pc = "f_exit"
    /\ pc' = "idle"
    /\ PullReset
    /\ calls' = <<>>
    /\ all_new_rows' = <<>>
    /\ backfilled' = FALSE
    /\ UNCHANGED <<now, days_needed, fetchable, unwritable, attempt, outcome,
                   upserts, fileVars, lastPulled, workerVars>>

SpecificNext ==
    \/ SpecificRefuse
    \/ SpecificStart
    \/ SpecificCoin
    \/ SpecificCrash
    \/ SpecificSave
    \/ SpecificExit

SpecificSpec == SpecificInit /\ [][SpecificNext]_vars

\* ------------------------------------------ _request_with_retry on its own
\* one call of _request_with_retry(url, params) with the default arguments,
\* over every sequence of answers of requests.get: HTTP 429, a status for
\* which raise_for_status raises HTTPError, any other status, or an exception
\* of requests.get itself (ConnectionError, Timeout)
max_retries == 5
Answers == {"429", "error", "ok", "network"}
GetCall(n, answer) ==
    [call |-> "get", id |-> NA, pass |-> n, items |-> <<>>, answer |-> answer]

\* variant: a 429 answer is retried without counting the attempt
NextAttemptFree429(n, answer) == IF answer = "429" THEN n ELSE n + 1

\* `for attempt in range(1, max_retries + 1)`: the attempt after attempt n
NextAttempt(n, answer) == n + 1

RetryInit ==
    /\ now = 0
    /\ fetchable = {}
    /\ unwritable = FALSE
    /\ calls = <<>>
    /\ rows = <<>>
    /\ dataExists = FALSE
    /\ queueFile = [state |-> "absent", rows |-> <<>>]
    /\ lastPulled = NA
    /\ upserts = [k \in Keys |-> <<>>]
    /\ pc = "q_loop"
    /\ attempt = 1 /\ outcome = "none"
    /\ all_new_rows = <<>> /\ backfilled = FALSE
    /\ days_needed = 0
    /\ PullIdle
    /\ WorkerIdle

\* one iteration of the loop: requests.get, then the branch on its answer
RetryRequest ==
    /\ pc = "q_loop"
    /\ attempt <= max_retries
    /\ \E answer \in Answers :
          /\ calls' = Append(calls, GetCall(attempt, answer))
          /\ IF answer = "network"
             THEN outcome' = "ConnectionError" /\ pc' = "q_done"
                  /\ UNCHANGED attempt
             ELSE IF answer = "429"
             THEN attempt' = NextAttempt(attempt, answer)
                  /\ UNCHANGED <<outcome, pc>>
             ELSE IF answer = "ok"
             THEN outcome' = "returned" /\ pc' = "q_done"
                  /\ UNCHANGED attempt
             ELSE IF attempt = max_retries
             THEN outcome' = "HTTPError" /\ pc' = "q_done"
                  /\ UNCHANGED attempt
             ELSE attempt' = NextAttempt(attempt, answer)
                  /\ UNCHANGED <<outcome, pc>>
    /\ UNCHANGED <<now, days_needed, fetchable, unwritable, all_new_rows, backfilled,
                   upserts, fileVars, lastPulled, pullVars, workerVars>>

\* the loop is over: raise RuntimeError("Failed to fetch ...")
RetryExhausted ==
    /\ pc = "q_loop"
    /\ attempt > max_retries
    /\ outcome' = "RuntimeError"
    /\ pc' = "q_done"
    /\ UNCHANGED <<now, days_needed, fetchable, unwritable, calls, attempt, all_new_rows,
                   backfilled, upserts, fileVars, lastPulled, pullVars,
                   workerVars>>

RetryNext ==
    \/ RetryRequest
    \/ RetryExhausted

\* the call runs until it returns or raises
RetrySpec ==
    /\ RetryInit
    /\ [][RetryNext]_vars
    /\ WF_vars(RetryNext)

TypeOK ==
    /\ now \in 0..Max2(Max2(MaxClock, Midnight(WorkerToday)), Midnight(3))
    /\ Len(picked) <= 1
    /\ Len(returns) <= 1
    /\ pc \in {"idle", "p_first", "p_second", "p_queue", "p_qopen", "p_qflush",
               "p_policy", "p_exit", "w_group", "w_item", "w_flush", "w_exit",
               "s_raw", "s_sorted", "s_done", "s_raised", "r_call", "r_done",
               "q_loop", "q_done", "c_exit", "b_loop", "b_save", "b_exit",
               "d_window", "d_done", "f_loop", "f_exit"}
    /\ outcome \in {"none", "returned", "HTTPError", "RuntimeError",
                     "ConnectionError"}
    /\ unwritable \in BOOLEAN
    /\ backfilled \in BOOLEAN
    /\ ret \in {NA, 0, 1}
    /\ lastPulled \in {NA} \cup Dates

\* ------------------------------------------------------------- properties
RowCount(k) == Cardinality({i \in DOMAIN rows : KeyOf(rows[i]) = k})
QueueCount(k) ==
    Cardinality({i \in DOMAIN queueFile.rows : KeyOf(queueFile.rows[i]) = k})
ItemsOf(q, k) == {q[i] : i \in {j \in DOMAIN q : KeyOf(q[j]) = k}}
StatusesOf(c) == {stats[i].status : i \in {j \in DOMAIN stats : stats[j].id = c}}
LastStatus(c) ==
    LET idx == {j \in DOMAIN stats : stats[j].id = c}
    IN  stats[CHOOSE j \in idx : \A j2 \in idx : j2 <= j].status
Failed(o) == o \in {"FetchFailed", "EmptyHistory"}

\* C1: after any sequence of non-overlapping api_pull and retry worker runs,
\* completed or killed at any point, the Row Store holds at most one row
\* per (id, date).
C1_OneRowPerKey == \A k \in Keys : RowCount(k) <= 1

\* a retry worker run has filled a gap after a completed api_pull run
C1_Witness ==
    /\ pc = "w_exit" /\ wout # NoOutcome /\ lastPulled # NA
    /\ Len(rows) = Len(Universe)

\* C2 (as stated): a second api_pull run for the same target_date creates no
\* duplicate row and reports every tracked entity as already_have.
C2_Original ==
    (pc = "p_exit" /\ lastPulled = target_date) =>
        /\ \A k \in Keys : RowCount(k) <= 1
        /\ \A c \in Coins : StatusesOf(c) = {"already_have"}

\* C2 (amended): a second api_pull run for the same target_date creates no
\* duplicate row and reports already_have for every entity that had a row
\* for target_date when it started, in particular every entity the first
\* run ended with a row for.
C2_Idempotent ==
    (pc = "p_exit" /\ lastPulled = target_date) =>
        /\ \A k \in Keys : RowCount(k) <= 1
        /\ \A c \in Coins :
              <<c, target_date>> \in KeysOf(existing) =>
                  StatusesOf(c) = {"already_have"}

\* the second run skips one entity and fetches another
C2_Witness ==
    /\ pc = "p_exit" /\ lastPulled = target_date
    /\ \E c \in Coins : <<c, target_date>> \in KeysOf(existing)
    /\ \E c \in Coins : "ok" \in StatusesOf(c)

\* C3: upserting (E, D) with attempts = 1 and later, at another time, with
\* attempts = 2 leaves exactly one queue row for (E, D), with attempts = 2
\* and first_seen_utc equal to the time of the first upsert.
C3_MergeKeepsFirstSeen ==
    \A k \in Keys :
        (/\ Len(upserts[k]) = 2
         /\ upserts[k][1].attempts = 1 /\ upserts[k][2].attempts = 2
         /\ upserts[k][1].t < upserts[k][2].t) =>
            /\ QueueCount(k) = 1
            /\ \A it \in ItemsOf(queueFile.rows, k) :
                  it.attempts = 2 /\ it.first_seen_utc = upserts[k][1].t

\* C4: after any sequence of upserts and retry worker runs the persisted
\* queue holds at most one item per (id, date).
C4_OneItemPerKey == \A k \in Keys : QueueCount(k) <= 1

\* an item that was upserted again after a failed retry
C4_Witness ==
    /\ pc = "p_exit"
    /\ \E i \in DOMAIN queueFile.rows :
          /\ queueFile.rows[i].first_seen_utc = now
          /\ KeyOf(queueFile.rows[i]) \notin KeysOf(rows)
    /\ lastPulled = target_date
    /\ Len(queueFile.rows) = Len(Universe)

\* C5: when an api_pull run has completed, every tracked entity has a row
\* for target_date or a queue item for target_date.
C5_FailuresQueued ==
    pc = "p_exit" =>
        \A c \in Coins :
            \/ <<c, target_date>> \in KeysOf(rows)
            \/ <<c, target_date>> \in KeysOf(queueFile.rows)

\* one entity ended with a row, another one only with a queue item
C5_Witness ==
    /\ pc = "p_exit"
    /\ \E c \in Coins : /\ <<c, target_date>> \notin KeysOf(rows)
                        /\ <<c, target_date>> \in KeysOf(queueFile.rows)
    /\ \E c \in Coins : <<c, target_date>> \in KeysOf(rows)

\* C6: an entity that fails the first pass and whose fetch and sample
\* succeed in the second pass ends with last status ok_second_pass and
\* exactly one row for (E, target_date), and the run writes no queue item
\* for it: the frame the run writes holds for that key what the file held.
C6_SecondPassRecovers ==
    /\ [](pc = "p_exit" =>
            \A c \in Coins :
                (Failed(out1[c]) /\ out2[c] = "ok") =>
                    /\ LastStatus(c) = "ok_second_pass"
                    /\ RowCount(<<c, target_date>>) = 1)
    /\ [][(pc = "p_queue" /\ pc' = "p_qopen") =>
            \A c \in Coins :
                (Failed(out1[c]) /\ out2[c] = "ok") =>
                    ItemsOf(combined', <<c, target_date>>)
                        = ItemsOf(queueFile.rows, <<c, target_date>>)]_vars

\* one entity recovered in the second pass while another one was queued
C6_Witness ==
    /\ pc = "p_exit"
    /\ \E c \in Coins : Failed(out1[c]) /\ out2[c] = "ok"
    /\ combined # <<>>

\* C7: an entity that fails both passes has, when the run has completed,
\* exactly one queue item for (E, target_date), with attempts = 1, status =
\* queued and last_error = the second-pass message, and no row.
C7_TerminalFailureQueued ==
    pc = "p_exit" =>
        \A c \in Coins :
            (Failed(out1[c]) /\ Failed(out2[c])) =>
                /\ QueueCount(<<c, target_date>>) = 1
                /\ \A it \in ItemsOf(queueFile.rows, <<c, target_date>>) :
                      /\ it.attempts = 1
                      /\ it.status = "queued"
                      /\ it.last_error = out2[c]
                /\ RowCount(<<c, target_date>>) = 0

\* the two passes failed differently, and the key was already queued with
\* a failed retry on it
C7_Witness ==
    /\ pc = "p_exit"
    /\ \E c \in Coins :
          /\ out1[c] = "FetchFailed" /\ out2[c] = "EmptyHistory"
          /\ \E it \in ItemsOf(queueFile.rows, <<c, target_date>>) :
                it.first_seen_utc = now /\ now > 0

\* C8: a retry worker run whose history fetch for E returns a non-empty
\* history ends with every item of E removed from the persisted queue and
\* exactly one row for its key; and once E is fetchable for good, with the
\* worker run again and again, every queued (E, D) is eventually resolved.
C8_WorkerResolves ==
    /\ [](pc = "w_exit" =>
            \A i \in DOMAIN queue :
                wout[queue[i].id] = "ok" =>
                    /\ QueueCount(KeyOf(queue[i])) = 0
                    /\ RowCount(KeyOf(queue[i])) = 1)
    /\ (\E k \in Keys : QueueCount(k) > 0 /\ k[1] \in fetchable)
          ~> (/\ pc = "idle"
              /\ \A k \in Keys : k[1] \in fetchable =>
                                      QueueCount(k) = 0 /\ RowCount(k) <= 1)

\* a run that filled the gap of one entity after an earlier failed retry
C8_Witness ==
    /\ pc = "w_exit"
    /\ \E i \in DOMAIN queue :
          /\ wout[queue[i].id] = "ok"
          /\ queue[i].attempts > 1
          /\ KeyOf(queue[i]) \notin KeysOf(queueFile.rows)
          /\ KeyOf(queue[i]) \in KeysOf(rows)

\* C9: a key in the persisted queue before an upsert or before a retry
\* worker run is still in it afterwards, unless a row for the key exists
\* when that worker run ends.
C9_NoSilentDrop ==
    /\ [][(pc = "p_queue" /\ pc' = "p_qopen") =>
            KeysOf(queueFile.rows) \subseteq KeysOf(combined')]_vars
    /\ [](pc = "p_exit" /\ combined # <<>> => queueFile.rows = combined)
    /\ [](pc = "w_exit" =>
            \A i \in DOMAIN queue :
                \/ KeyOf(queue[i]) \in KeysOf(queueFile.rows)
                \/ KeyOf(queue[i]) \in KeysOf(rows))

\* a worker run that ended with one item resolved and one item kept at the
\* attempt bound
C9_Witness ==
    /\ pc = "w_exit"
    /\ \E i \in DOMAIN queue : KeyOf(queue[i]) \notin KeysOf(queueFile.rows)
    /\ \E i \in DOMAIN queue :
          /\ KeyOf(queue[i]) \in KeysOf(queueFile.rows)
          /\ queue[i].attempts = MaxAttempts

\* C10 (as stated): whenever no run is in progress, no key has both a row
\* and a queue item.
C10_Original ==
    pc = "idle" => KeysOf(rows) \cap KeysOf(queueFile.rows) = {}

\* C10 (amended): when a retry worker run has completed, no key has both a
\* row and a queue item.
C10_RemovedByWorker ==
    pc = "w_exit" => KeysOf(rows) \cap KeysOf(queueFile.rows) = {}

\* a worker run that only removed items whose rows were already there
C10_Witness ==
    /\ pc = "w_exit"
    /\ wout = NoOutcome
    /\ success_indices # {}
    /\ KeysOf(queue) \subseteq KeysOf(rows)

\* ------------------------------------------------------------ exit status
Succeeded(st) == st.status \in {"ok", "ok_second_pass", "already_have"}

C12_FailureExitsOne ==
    (pc = "p_exit" /\ \E i \in DOMAIN stats :
                         stats[i].status = "error_second_pass") => ret = 1

\* ------------------------------------------------------- midnight sampler
Distance(o, d) == Abs(o.timestamp_utc - Midnight(d))
IsAscending(h) ==
    \A i, j \in DOMAIN h : i < j => h[i].timestamp_utc <= h[j].timestamp_utc

\* C13: for every non-empty history and every target date,
\* pick_midnight_for_date returns an observation of the history whose
\* timestamp is nearest to target_date 00:00 UTC among all observations,
\* whatever the calendar date of that observation.
C13_PicksNearest ==
    /\ (pc \in {"s_raw", "s_sorted"} /\ hist # <<>>) => ENABLED SamplerPick
    /\ pc = "s_done" =>
          /\ Len(picked) = 1
          /\ \E i \in DOMAIN hist : hist[i] = picked[1]
          /\ \A j \in DOMAIN hist :
                Distance(picked[1], target_date) <= Distance(hist[j], target_date)

\* the nearest observation lies on another calendar date than the target
C13_Witness ==
    /\ pc = "s_done"
    /\ DateOf(picked[1].timestamp_utc) # target_date
    /\ Len(hist) > 1

\* C14: of two observations equidistant from the target midnight the one
\* with the earliest index is returned; in a history sorted by the gateway
\* that is the earlier timestamp.
C14_TieEarliestIndex ==
    /\ pc = "s_sorted" => IsAscending(hist)
    /\ pc = "s_done" =>
          \E i \in DOMAIN hist :
             /\ hist[i] = picked[1]
             /\ \A j \in DOMAIN hist :
                   Distance(hist[j], target_date) = Distance(hist[i], target_date)
                       => /\ i <= j
                          /\ IsAscending(hist) =>
                                hist[i].timestamp_utc <= hist[j].timestamp_utc

\* a sorted history whose two nearest observations lie one tick before and
\* one tick after the target midnight
C14_Witness ==
    /\ pc = "s_done"
    /\ IsAscending(hist)
    /\ \E i, j \in DOMAIN hist :
          /\ hist[i].timestamp_utc < Midnight(target_date)
          /\ hist[j].timestamp_utc > Midnight(target_date)
          /\ Distance(hist[i], target_date) = Distance(hist[j], target_date)
          /\ picked[1] = hist[i]

\* ---------------------------------------------------------- empty history
\* C15: sampling an empty history raises, and the error is the failure of
\* that one entity or item only: no row is appended for it, the loop goes on
\* to the next entity or item, and every entity of the run is processed.
C15_EmptyHistoryPerEntity ==
    /\ [](pc = "p_exit" => \A c \in Coins : StatusesOf(c) # {})
    /\ [](pc = "w_exit" =>
            \A i \in DOMAIN queue :
                (wout[queue[i].id] = "EmptyHistory" /\ i \notin success_indices)
                    => /\ queue[i].status = "error"
                       /\ queue[i].last_error = "EmptyHistory"
                       /\ QueueCount(KeyOf(queue[i])) = 1)
    /\ [][/\ \A c \in Coins :
               (out1[c] = "none" /\ out1'[c] = "EmptyHistory") =>
                   /\ rows' = rows
                   /\ pc' = "p_first" /\ pi' = pi + 1
                   /\ stats' = Append(stats,
                                   Stat(c, "error_first_pass", "EmptyHistory"))
          /\ \A c \in Coins :
               (out2[c] = "none" /\ out2'[c] = "EmptyHistory") =>
                   /\ rows' = rows
                   /\ pc' = "p_second" /\ pi' = pi + 1
                   /\ stats' = Append(stats,
                                   Stat(c, "error_second_pass", "EmptyHistory"))
          /\ (pc = "w_item" /\ hist = <<>> /\ pending_rows # <<>>
                /\ pc' # "idle") =>
                   /\ rows' = rows
                   /\ pc' = "w_item" /\ pending_rows' = Tail(pending_rows)
                   /\ success_indices' = success_indices
                   /\ queue'[Head(pending_rows)].attempts =
                         queue[Head(pending_rows)].attempts + 1]_vars

\* an api_pull run got an empty history for the first entity in both passes
\* and appended the row of the second one
C15_Witness ==
    /\ pc = "p_exit"
    /\ out1[Universe[1]] = "EmptyHistory" /\ out2[Universe[1]] = "EmptyHistory"
    /\ RowCount(<<Universe[1], target_date>>) = 0
    /\ LastStatus(Universe[2]) = "ok"

\* ---------------------------------------------------------------- returns
\* the return over n days that the row of (c, d) with price cur must carry
\* under the price index lookup: absent without a non-zero price at exactly
\* d - n, else the whole percent v with v * past <= (cur - past) * 100
ReturnIs(r, c, d, n, cur, lookup) ==
    IF <<c, d - n>> \in DOMAIN lookup /\ lookup[<<c, d - n>>] # 0
    THEN /\ Len(r) = 1
         /\ r[1] * lookup[<<c, d - n>>] <= (cur - lookup[<<c, d - n>>]) * 100
         /\ (cur - lookup[<<c, d - n>>]) * 100 < (r[1] + 1) * lookup[<<c, d - n>>]
    ELSE r = <<>>

\* C16: for each horizon N in {1, 7, 30} compute_returns_for_new_row gives
\* (current / past - 1) * 100 with past the indexed price of the entity at
\* exactly target_date - N days, and an absent return when the index has no
\* price at that date or the price is zero; 100 on D-1 and 200 on D give
\* return_1d = 100.
C16_ExactDateReturns ==
    pc = "r_done" =>
        /\ Len(returns) = 1
        /\ ReturnIs(returns[1].r1, Universe[pi], target_date, 1,
                    picked[1].price, price_lookup)
        /\ ReturnIs(returns[1].r7, Universe[pi], target_date, 7,
                    picked[1].price, price_lookup)
        /\ ReturnIs(returns[1].r30, Universe[pi], target_date, 30,
                    picked[1].price, price_lookup)
        /\ (/\ LookupGet(price_lookup, Universe[pi], target_date - 1) = <<100>>
            /\ picked[1].price = 200) => returns[1].r1 = <<100>>

\* price 100 on D-1 and 200 on D, no price on D-7 (but one on D-2 and for
\* the other coin), price zero on D-30
C16_Witness ==
    /\ pc = "r_done"
    /\ pi = 1 /\ picked[1].price = 200
    /\ LookupGet(price_lookup, Universe[1], target_date - 1) = <<100>>
    /\ LookupGet(price_lookup, Universe[1], target_date - 2) = <<100>>
    /\ LookupGet(price_lookup, Universe[1], target_date - 7) = <<>>
    /\ LookupGet(price_lookup, Universe[2], target_date - 7) = <<100>>
    /\ LookupGet(price_lookup, Universe[1], target_date - 30) = <<0>>
    /\ returns = <<[r1 |-> <<100>>, r7 |-> <<>>, r30 |-> <<>>]>>

\* ------------------------------------------------- returns of filled rows
\* rows i and j belong to one entity, row j being n days after row i
DaysApart(i, j, n) ==
    /\ rows[i].id = rows[j].id
    /\ rows[j].date = rows[i].date + n
PctOf(j, i) == pct(rows[j].current_price, <<rows[i].current_price>>)

\* C17: when one Retry Worker run fills both (E, D) and (E, D+1), the row
\* appended for (E, D+1) carries the return_1d computed from the price
\* appended for (E, D), not an absent one.
C17_ChainedLookback ==
    pc = "w_exit" =>
        \A i, j \in DOMAIN rows :
            (/\ DaysApart(i, j, 1)
             /\ rows[i].last_pipeline_run_utc = now_utc
             /\ rows[j].last_pipeline_run_utc = now_utc)
                => /\ rows[j].price_change_percentage_24h_in_currency # None
                   /\ rows[j].price_change_percentage_24h_in_currency = PctOf(j, i)

\* a run that filled dates 0 and 1 of one entity from one history
C17_Witness ==
    /\ pc = "w_exit"
    /\ \E i, j \in DOMAIN rows :
          /\ DaysApart(i, j, 1)
          /\ rows[i].last_pipeline_run_utc = now_utc
          /\ rows[j].last_pipeline_run_utc = now_utc
          /\ rows[j].price_change_percentage_24h_in_currency = <<20>>

\* C18: after a Retry Worker run that appended rows the returns are
\* recomputed: a stored row (E, D+N), N in {1, 7, 30}, whose return was
\* absent because (E, D) was missing carries the return computed from the
\* price the run filled in for (E, D).
C18_ReturnsRecomputed ==
    pc = "w_exit" =>
        \A i, j \in DOMAIN rows :
            rows[i].last_pipeline_run_utc = now_utc =>
                /\ DaysApart(i, j, 1) =>
                      rows[j].price_change_percentage_24h_in_currency = PctOf(j, i)
                /\ DaysApart(i, j, 7) =>
                      rows[j].price_change_percentage_7d_in_currency = PctOf(j, i)
                /\ DaysApart(i, j, 30) =>
                      rows[j].price_change_percentage_30d_in_currency = PctOf(j, i)

\* ------------------------------------------------------------- durability
IsPrefix(a, b) == Len(a) <= Len(b) /\ SubSeq(b, 1, Len(a)) = a
PullPcs == {"p_first", "p_second", "p_queue", "p_qopen", "p_qflush",
            "p_policy", "p_exit"}

C21_PersistenceFatal ==
    /\ \A i \in DOMAIN stats : stats[i].error # "PersistenceError"
    /\ \A i \in DOMAIN queue : queue[i].last_error # "PersistenceError"
    /\ \A i \in DOMAIN queueFile.rows :
          queueFile.rows[i].last_error # "PersistenceError"

\* ------------------------------------------------------------- first pass
FetchCalls(c, pass) ==
    {i \in DOMAIN calls : calls[i] = FetchCall(c, pass, <<>>)}
FirstPassOver ==
    \/ pc = "p_first" /\ pi > Len(Universe)
    \/ pc \in {"p_second", "p_queue", "p_qopen", "p_qflush", "p_policy", "p_exit"}

\* C22: a fetch or sampling error of one entity ends neither the run nor the
\* first pass: the step that meets it stays in the first pass, and when the
\* first pass is over every tracked entity without a row for target_date
\* has been fetched exactly once in it (and no other entity has).
C22_FirstPassCoversAll ==
    /\ [](FirstPassOver =>
            \A c \in Coins :
                Cardinality(FetchCalls(c, 1)) =
                    IF <<c, target_date>> \in KeysOf(existing) THEN 0 ELSE 1)
    /\ [][\A c \in Coins :
             (out1[c] = "none" /\ Failed(out1'[c])) =>
                 /\ pc' = "p_first"
                 /\ pi' = pi + 1
                 /\ first_pass_errors' = Append(first_pass_errors, c)]_vars

\* the first entity failed in the first pass and the second one was fetched
\* all the same
C22_Witness ==
    /\ FirstPassOver
    /\ Failed(out1[Universe[1]])
    /\ FetchCalls(Universe[2], 1) # {}
    /\ out1[Universe[2]] = "ok"

\* ------------------------------------------------------- request retries
Answered(a) == {i \in DOMAIN calls : calls[i].answer = a}

\* C23: every kind of fetch failure (HTTP 429, an HTTP error status, a
\* network-level error of the request) is retried up to the attempt ceiling
\* before _request_with_retry raises.
C23_AllFailuresRetried ==
    (pc = "q_done" /\ outcome # "returned") => Len(calls) = max_retries

\* C28: over answers 429, HTTP error status and success, _request_with_retry
\* ends after at most max_retries requests; it returns the first successful
\* response, and raises when none of max_retries attempts succeeds.
C28_BoundedRetries ==
    /\ [](Answered("network") = {} =>
            /\ Len(calls) <= max_retries
            /\ \A i \in Answered("ok") : i = Len(calls) /\ pc = "q_done"
            /\ pc = "q_done" =>
                  /\ outcome = "returned" <=> Answered("ok") # {}
                  /\ Answered("ok") = {} =>
                        /\ Len(calls) = max_retries
                        /\ outcome \in {"HTTPError", "RuntimeError"})
    /\ <>(pc = "q_done")

\* the fifth request succeeded after rate limiting and an HTTP error
C28_Witness ==
    /\ pc = "q_done" /\ outcome = "returned"
    /\ Len(calls) = max_retries
    /\ Answered("429") # {} /\ Answered("error") # {}

\* ------------------------------------------------ full-table de-duplication
SetMax(S) == CHOOSE x \in S : \A y \in S : y <= x
LegacyKeys == Coins \X {DateOf(ts) : ts \in LegacyStamps \ {NA}}

\* the rows of the legacy table data that fall on key k
KeyRows(data, k) ==
    {i \in DOMAIN data : /\ data[i].timestamp_utc # NA
                         /\ data[i].id = k[1]
                         /\ DateOf(data[i].timestamp_utc) = k[2]}

\* of the rows idx of data, the last one among those stamped latest
LatestStamped(data, idx) ==
    SetMax({i \in idx : \A j \in idx :
                data[j].timestamp_utc <= data[i].timestamp_utc})

RECURSIVE AttemptOrder(_)
\* the queue rows attempted so far, in the order of their attempts: the items
\* of the fetches of the call log, one after the other
AttemptOrder(log) ==
    IF log = <<>> THEN <<>>
    ELSE AttemptOrder(SubSeq(log, 1, Len(log) - 1)) \o log[Len(log)].items

\* C25: the Retry Worker attempts pending QueueItems oldest first: an item
\* is never attempted after an item with a later first_seen_utc.
C25_OldestFirst ==
    pc \in {"w_group", "w_item", "w_flush", "w_exit"} =>
        \A p, q \in DOMAIN AttemptOrder(calls) :
            p < q =>
                queue[AttemptOrder(calls)[p]].first_seen_utc
                    <= queue[AttemptOrder(calls)[q]].first_seen_utc

\* ------------------------------------------------------------ queue write
\* C26: the queue write of upsert_missing_queue is an atomic replace: when
\* the process ends at any point of the call, the persisted queue is a
\* complete file, the prior queue (or none, if there was none) or the merged
\* queue, never a partial or empty file.
C26_AtomicReplace ==
    [][(pc \in {"p_qopen", "p_qflush"} /\ pc' = "idle") =>
          \/ queueFile' = [state |-> "ok", rows |-> combined]
          \/ queueFile'.state = "absent"
          \/ /\ queueFile'.state = "ok"
             /\ KeysOf(queueFile'.rows) \subseteq KeysOf(combined)]_vars

\* ----------------------------------------------------------------- backfill
\* rows a and b of the timestamped file are the same observation
SameRow(a, b) ==
    /\ a.id = b.id
    /\ a.timestamp_utc = b.timestamp_utc
    /\ a.current_price = b.current_price

\* C27: backfill_dec4_5_6 is safe to re-run: a completed run creates rows
\* only for (id, target date) combinations of the universe without a row,
\* deletes no existing row, and a run directly after a completed run adds no
\* rows.
C27_SafeToRerun ==
    (pc = "b_exit" /\ ret = 0) =>
        /\ \A i \in DOMAIN rows :
              (\A j \in DOMAIN existing : ~SameRow(rows[i], existing[j])) =>
                  /\ rows[i].id \in Coins
                  /\ \E k \in DOMAIN TARGET_DATES :
                        /\ rows[i].timestamp_utc = Midnight(TARGET_DATES[k])
                        /\ KeyRows(existing, <<rows[i].id, TARGET_DATES[k]>>) = {}
        /\ \A j \in DOMAIN existing :
              \E i \in DOMAIN rows : SameRow(rows[i], existing[j])
        /\ backfilled => Len(rows) <= Len(existing)

\* ------------------------------------------------------------ second pass
PassesOver == pc \in {"p_queue", "p_qopen", "p_qflush", "p_policy", "p_exit"}
Cooldowns == {i \in DOMAIN calls : calls[i] = CooldownCall}
FirstPassFailed == {first_pass_errors[i] : i \in DOMAIN first_pass_errors}

\* C29: in an api_pull run the cooldown sleep and the second pass happen if
\* and only if the first-pass failure list is non-empty; the sleep precedes
\* every second-pass fetch; the second pass fetches exactly the entities
\* that failed in the first pass, each once; no entity is fetched more than
\* twice in a run.
C29_SecondPassExact ==
    /\ pc \in PullPcs =>
          /\ \A i \in DOMAIN calls :
                (calls[i].call = "fetch" /\ calls[i].pass = 2) =>
                    /\ \E j \in Cooldowns : j < i
                    /\ calls[i].id \in FirstPassFailed
          /\ \A c \in Coins :
                /\ Cardinality(FetchCalls(c, 2)) <= 1
                /\ Cardinality(FetchCalls(c, 1) \cup FetchCalls(c, 2)) <= 2
    /\ PassesOver =>
          /\ Cooldowns # {} <=> first_pass_errors # <<>>
          /\ \A c \in Coins :
                Cardinality(FetchCalls(c, 2)) =
                    IF c \in FirstPassFailed THEN 1 ELSE 0

\* the first entity was fetched once; the second one failed, and was fetched
\* again after the cooldown
C29_Witness ==
    /\ PassesOver
    /\ calls = <<FetchCall(Universe[1], 1, <<>>), FetchCall(Universe[2], 1, <<>>),
                 CooldownCall, FetchCall(Universe[2], 2, <<>>)>>
    /\ out1[Universe[1]] = "ok"

\* ------------------------------------------------- items already satisfied
WorkerFetches == {i \in DOMAIN calls : calls[i].call = "fetch" /\ calls[i].pass = 0}
FetchedItems == UNION {{calls[i].items[k] : k \in DOMAIN calls[i].items} : i \in WorkerFetches}

\* C30: in a retry worker run, a queue item whose key has a row when the run
\* starts is absent from the queue the run persists, the run appends no row
\* for a key that already has one, and it issues a history fetch for an
\* entity only if one of that entity's queued items has no row.
C30_SatisfiedItemsSkipped ==
    /\ [][pc = "idle" /\ pc' = "w_group" =>
            \A i \in DOMAIN queue' :
                KeyOf(queue'[i]) \in KeysOf(rows) =>
                    /\ i \in AlreadyPresent(queue', queue'[i].id, w_existing_keys')
                    /\ \A k \in DOMAIN PendingRows(queue', queue'[i].id,
                                                    w_existing_keys') :
                          PendingRows(queue', queue'[i].id, w_existing_keys')[k] # i]_vars
    /\ [][(pc \in {"w_group", "w_item"}) /\ rows' # rows =>
            \E r \in {rows'[Len(rows')]} :
                rows' = Append(rows, r) /\ KeyOf(r) \notin KeysOf(rows)]_vars
    /\ [][pc = "w_group" /\ Len(calls') > Len(calls) =>
            \E i \in DOMAIN queue :
                /\ queue[i].id = calls'[Len(calls')].id
                /\ KeyOf(queue[i]) \notin KeysOf(rows)]_vars
    /\ [](pc = "w_exit" =>
            \A i \in DOMAIN queue :
                i \in success_indices \ FetchedItems =>
                    /\ KeyOf(queue[i]) \notin KeysOf(queueFile.rows)
                    /\ RowCount(KeyOf(queue[i])) = 1)

\* a completed run that fetched for one entity and filled its item, while
\* the other entity's items all had rows and were dropped without a fetch
C30_Witness ==
    /\ pc = "w_exit"
    /\ \E c \in Coins, c2 \in Coins :
          /\ GroupIndices(queue, c) # {}
          /\ GroupIndices(queue, c) \subseteq success_indices \ FetchedItems
          /\ \A i \in WorkerFetches : calls[i].id # c
          /\ \E i \in WorkerFetches : calls[i].id = c2
          /\ GroupIndices(queue, c2) \cap success_indices \cap FetchedItems # {}
          /\ GroupIndices(queue, c2) \cap (success_indices \ FetchedItems) # {}

\* ------------------------------------------------------- failed attempts
\* the items of the run that were pending and were not filled
FailedItems == FetchedItems \ success_indices
AttemptErrors == {"FetchFailed", "EmptyHistory", "PersistenceError"}

\* C31: when the attempts of a retry worker run are over, every item whose
\* attempt failed differs from the item read at the start of the run in
\* exactly this: attempts is one higher, status is error, last_error names
\* the failure and last_attempt_utc is the time of the run; the queue the
\* run then persists holds that item, whatever its number of attempts.
C31_FailedItemKept ==
    /\ pc = "w_group" /\ groups = <<>> =>
          \A i \in FailedItems :
              \E j \in DOMAIN queueFile.rows :
                  /\ queue[i].last_error \in AttemptErrors
                  /\ queue[i] =
                        [queueFile.rows[j] EXCEPT
                            !.attempts = queueFile.rows[j].attempts + 1,
                            !.status = "error",
                            !.last_error = queue[i].last_error,
                            !.last_attempt_utc = now_utc]
    /\ pc = "w_exit" =>
          \A i \in FailedItems :
              /\ queue[i].status = "error"
              /\ queue[i].last_attempt_utc = now_utc
              /\ Cardinality({j \in DOMAIN queueFile.rows :
                                 queueFile.rows[j] = queue[i]}) = 1

\* a completed run in which one entity's fetch failed and another entity's
\* date could not be sampled; one of the failed items reached the bound
C31_Witness ==
    /\ pc = "w_exit"
    /\ \E i \in FailedItems, j \in FailedItems :
          /\ queue[i].last_error = "FetchFailed"
          /\ queue[j].last_error = "EmptyHistory"
          /\ queue[i].attempts = MaxAttempts
    /\ \A i \in FailedItems : \E j \in DOMAIN queueFile.rows :
          queueFile.rows[j] = queue[i]

\* ---------------------------------------------------- one fetch per entity
WorkerFetchesOf(c) == {i \in WorkerFetches : calls[i].id = c}

\* C32: in one retry worker run at most one history fetch is issued per
\* entity, for all of the entity's pending items together, wherever these
\* items sit in the queue.
C32_OneFetchPerEntity ==
    pc \in {"w_group", "w_item", "w_flush", "w_exit"} =>
        \A c \in Coins :
            /\ Cardinality(WorkerFetchesOf(c)) <= 1
            /\ \A i \in WorkerFetchesOf(c) :
                  /\ calls[i].items # <<>>
                  /\ \A k \in DOMAIN queue :
                        (queue[k].id = c /\ k \notin success_indices) =>
                            \E n \in DOMAIN calls[i].items : calls[i].items[n] = k

\* a completed run whose single fetch for an entity served two items that
\* are not next to each other in the queue, one of them left unfilled
C32_Witness ==
    /\ pc = "w_exit"
    /\ \E c \in Coins : \E i \in WorkerFetchesOf(c) :
          /\ Len(calls[i].items) = 2
          /\ calls[i].items[2] > calls[i].items[1] + 1
          /\ queue[calls[i].items[1] + 1].id # c
          /\ FailedItems \cap {calls[i].items[1], calls[i].items[2]} # {}

\* ---------------------------------------------------------- history window
\* the days between today and the oldest pending date
OldestAge ==
    DateOf(now) - SetMin({queue[pending_rows[k]].date : k \in DOMAIN pending_rows})
Covered == hist # <<>> /\ hist[1].timestamp_utc <= Midnight(DateOf(now) - OldestAge)

\* C33 (as stated): the window requested is at least the age of the oldest
\* pending date plus BUFFER_DAYS, for every age.
C33_Original ==
    pc = "d_done" => days_needed >= OldestAge + BUFFER_DAYS

\* C33 (amended): the window requested is at least the age of the oldest
\* pending date plus BUFFER_DAYS when that sum is at most MAX_HISTORY_DAYS,
\* and the history then received reaches back to the midnight of the oldest
\* pending date; for older items the window is MAX_HISTORY_DAYS.
C33_WindowUpToCap ==
    pc = "d_done" =>
        /\ OldestAge + BUFFER_DAYS <= MAX_HISTORY_DAYS =>
              /\ days_needed >= OldestAge + BUFFER_DAYS
              /\ wout[Head(groups)] = "ok" => Covered
        /\ OldestAge + BUFFER_DAYS > MAX_HISTORY_DAYS =>
              days_needed = MAX_HISTORY_DAYS

\* windows on both sides of the cap: the oldest item, second in the queue,
\* is 88 days old and covered
C33_Witness ==
    /\ pc = "d_done"
    /\ Len(queue) = 2
    /\ queue[2].date < queue[1].date
    /\ OldestAge + BUFFER_DAYS = MAX_HISTORY_DAYS
    /\ days_needed = MAX_HISTORY_DAYS
    /\ wout[Head(groups)] = "ok" /\ Covered

\* --------------------------------------------------- a killed worker run
WorkerRunPcs == {"w_group", "w_item", "w_flush", "w_exit"}
RowsOfKey(k) == {i \in DOMAIN rows : KeyOf(rows[i]) = k}

\* C34: a kill of the retry worker leaves the Row Store as it is; a key
\* filled by a killed run is found present by a following run, which
\* appends no second row for it, and a run that completes leaves no queue
\* item whose key has a row.
C34_KillRecovery ==
    /\ [][(pc \in WorkerRunPcs /\ pc' = "idle") => rows' = rows]_vars
    /\ [][(pc = "idle" /\ pc' = "w_group") =>
            KeysOf(rows) \subseteq w_existing_keys']_vars
    /\ [](pc \in WorkerRunPcs =>
            \A i \in DOMAIN queue :
                Cardinality(RowsOfKey(KeyOf(queue[i]))) <= 1)
    /\ [](pc = "w_exit" =>
            \A i \in DOMAIN queue :
                RowsOfKey(KeyOf(queue[i])) # {} =>
                    QueueCount(KeyOf(queue[i])) = 0)

\* a completed run that found an item already filled by an earlier worker
\* run, which was killed before it wrote the queue, and filled another one
C34_Witness ==
    /\ pc = "w_exit"
    /\ \E i \in success_indices \ FetchedItems :
          /\ \A j \in RowsOfKey(KeyOf(queue[i])) :
                rows[j].last_pipeline_run_utc = now_utc
          /\ Cardinality(RowsOfKey(KeyOf(queue[i]))) = 1
          /\ QueueCount(KeyOf(queue[i])) = 0
    /\ success_indices \cap FetchedItems # {}

\* ------------------------------------------------- returns of the rewrite
\* the price of the row of the same entity n calendar days before row i
PriceDaysBefore(i, n) ==
    LET prev == {j \in DOMAIN rows :
                   rows[j].id = rows[i].id /\ rows[j].date = rows[i].date - n}
    IN  IF prev = {} THEN None
        ELSE <<rows[CHOOSE j \in prev : TRUE].current_price>>

\* C35: in the table written by clean_to_date every row's 1d, 7d and 30d
\* return is computed from the same entity's price exactly 1, 7 and 30
\* calendar days earlier, and is absent when there is no row on that date.
C35_CalendarReturns ==
    (pc = "c_exit" /\ ret = 0) =>
        \A i \in DOMAIN rows :
            /\ rows[i].price_change_percentage_24h_in_currency =
                  pct(rows[i].current_price, PriceDaysBefore(i, 1))
            /\ rows[i].price_change_percentage_7d_in_currency =
                  pct(rows[i].current_price, PriceDaysBefore(i, 7))
            /\ rows[i].price_change_percentage_30d_in_currency =
                  pct(rows[i].current_price, PriceDaysBefore(i, 30))

\* ------------------------------------------------- replaced target dates
\* the file content data has a row of coin c on date d
HasStampedRow(data, c, d) ==
    \E i \in DOMAIN data :
        /\ data[i].id = c
        /\ data[i].timestamp_utc # NA
        /\ DateOf(data[i].timestamp_utc) = d

\* C36: at the end of a backfill_specific_dates run every (coin, target
\* date) that had a row in the file the run read has a row in the file, and
\* a run that fetched no replacement row has left the file unchanged.
C36_TargetRowsComeBack ==
    pc = "f_exit" =>
        /\ \A c \in Coins : \A d \in SpecificTargets :
              HasStampedRow(existing, c, d) => HasStampedRow(rows, c, d)
        /\ all_new_rows = <<>> => rows = existing

\* --------------------------------------------------------- overlapping runs
\* the keys api_pull has upserted while the worker was running
UpsertedKeys == {<<stats[k].id, target_date>> : k \in DOMAIN stats}
Overlapped == pc = "w_exit" /\ combined # <<>>

\* C37 (as stated): when api_pull's upsert falls between the worker's read
\* and the worker's write of the queue, the upserted items are in the
\* persisted queue after both have finished.
C37_Original ==
    Overlapped => UpsertedKeys \subseteq KeysOf(queueFile.rows)

\* C37 (amended): when api_pull's upsert falls between the worker's read and
\* the worker's write of the queue, the queue persisted after both have
\* finished is the queue the worker read without the items it resolved: an
\* upserted item is in it exactly when the worker read an item of that key
\* and did not resolve it, and then as the worker holds it.
C37_WorkerWriteWins ==
    Overlapped =>
        /\ {queueFile.rows[j] : j \in DOMAIN queueFile.rows} =
              {queue[i] : i \in DOMAIN queue \ success_indices}
        /\ Len(queueFile.rows) = Cardinality(DOMAIN queue \ success_indices)
        /\ \A k \in UpsertedKeys :
              k \in KeysOf(queueFile.rows) <=>
                  \E i \in DOMAIN queue \ success_indices : KeyOf(queue[i]) = k

\* both cases after one overlap: an upserted item of a new key is gone, and
\* an upserted item of a key the worker failed on is there with the worker's
\* count of attempts
C37_Witness ==
    /\ Overlapped
    /\ success_indices # {}
    /\ \E k \in UpsertedKeys : k \notin KeysOf(queueFile.rows)
    /\ \E k \in UpsertedKeys : \E j \in DOMAIN queueFile.rows :
          /\ KeyOf(queueFile.rows[j]) = k
          /\ queueFile.rows[j].attempts = 2
          /\ \E n \in DOMAIN combined :
                KeyOf(combined[n]) = k /\ combined[n].attempts = 1

\* ------------------------------------------------------ count of attempts
\* frame `new` is about to replace the queue file: no item of a key that is
\* in both has fewer attempts in `new`
AttemptsKept(new) ==
    \A i \in DOMAIN queueFile.rows : \A j \in DOMAIN new :
        KeyOf(queueFile.rows[i]) = KeyOf(new[j]) =>
            new[j].attempts >= queueFile.rows[i].attempts

\* C38: for a key that stays in the Retry Queue the attempts counter never
\* decreases: neither the queue api_pull is about to write nor the queue the
\* retry worker is about to write holds an item with fewer attempts than the
\* item of the same key in the queue file it replaces.
C38_AttemptsNeverDecrease ==
    /\ pc = "p_qopen" => AttemptsKept(combined)
    /\ (pc = "w_group" /\ groups = <<>>) =>
          AttemptsKept(QueueRemaining(queue, success_indices))

\* C20: when api_pull is killed every row it appended stays in the Row
\* Store, and a following complete run for the same target_date appends rows
\* only for entities that still have none, leaving at most one row per key.
C20_KillKeepsProgress ==
    /\ [](pc \in PullPcs =>
            /\ IsPrefix(existing, rows)
            /\ existing_keys \subseteq KeysOf(rows))
    /\ [][(pc \in PullPcs /\ pc' = "idle") => rows' = rows]_vars
    /\ [](pc = "p_exit" =>
            /\ \A i \in DOMAIN rows :
                  i > Len(existing) =>
                      /\ rows[i].date = target_date
                      /\ KeyOf(rows[i]) \notin KeysOf(existing)
            /\ \A k \in Keys : RowCount(k) <= 1)

\* a complete run after a killed one of the same date: no run has completed
\* and no queue was ever written, yet one entity is already there and the
\* run appends the other
C20_Witness ==
    /\ pc = "p_exit"
    /\ lastPulled = NA /\ queueFile.state = "absent"
    /\ \E i \in DOMAIN stats : stats[i].status = "already_have"
    /\ \E i \in DOMAIN stats : stats[i].status \in {"ok", "ok_second_pass"}
    /\ Len(rows) = Len(existing) + 1
====
